---- MODULE Spec2Model ----
(***************************************************************************)
(* Model of the staged Swagger -> artifacts pipeline: the reply parsers    *)
(* (safe_json_loads, the tag-grammar pattern, the fallback code-block      *)
(* pattern), the in-memory archive packaging, the stage functions and the  *)
(* two LangGraph workflows that sequence them.                             *)
(*                                                                         *)
(* Text is a sequence of symbols.  A symbol is one character ("sp" a       *)
(* blank, "nl" a newline, "bt" a backtick, "." "/" "-" themselves, letters  *)
(* themselves) or one lexeme that the patterns only ever meet as a whole:  *)
(* the four delimiters of the tag grammar, JSON punctuation and literals.  *)
(*                                                                         *)
(* The record is the one dictionary every stage function mutates and       *)
(* returns; the graph hands it from a node to the next as the node left it. *)
(***************************************************************************)
EXTENDS Integers, Sequences, FiniteSets, TLC

\* ------------------------------------------------------------------ text

\* >>>FILE_PATH_START<<<, >>>FILE_PATH_END<<<, >>>FILE_CONTENT_START<<<,
\* >>>FILE_CONTENT_END<<<
PS == "PS"
PE == "PE"
CS == "CS"
CE == "CE"

\* \s of the patterns and the characters str.strip() removes
IsSpace(c) == c \in {"sp", "nl"}

\* \w of the patterns: letters, digits and the underscore
IsWord(c) == c \in {"a", "b", "c", "p", "y", "m", "l", "json", "null", "1"}

\* [\w\-/] of the fallback patterns
IsPathChar(c) == IsWord(c) \/ c \in {"-", "/"}

Min(S) == CHOOSE x \in S : \A y \in S : x <= y

\* t[a..b], empty when b < a
Slice(t, a, b) == IF b < a THEN <<>> ELSE SubSeq(t, a, b)

\* Python's text[:n]
Take(t, n) == IF Len(t) <= n THEN t ELSE SubSeq(t, 1, n)

\* first position >= i that holds no white space (Len(t)+1 when none): where
\* a greedy \s* started at i stops
RECURSIVE SkipSpace(_, _)
SkipSpace(t, i) == IF i <= Len(t) /\ IsSpace(t[i]) THEN SkipSpace(t, i + 1) ELSE i

\* last position <= i that holds no white space (0 when none)
RECURSIVE SkipSpaceBack(_, _)
SkipSpaceBack(t, i) == IF i >= 1 /\ IsSpace(t[i]) THEN SkipSpaceBack(t, i - 1) ELSE i

\* str.strip()
Strip(t) == Slice(t, SkipSpace(t, 1), SkipSpaceBack(t, Len(t)))

At(t, i, c) == i >= 1 /\ i <= Len(t) /\ t[i] = c

\* ------------------------------------------------- the tag-grammar pattern

\* The pattern of the file-producing stages,
\*   PS \s* (.*?) \s* PE \s* CS \n ([\s\S]*?) \n CE
\* from the end of the path group on: at s the rest of the pattern is
\* \s* PE \s* CS \n ([\s\S]*?) \n CE.  A greedy \s* followed by a delimiter
\* can only stop at the end of the white-space run; the lazy content group
\* stops at the first newline that the end delimiter follows.
TagContentStart(t, s) ==
    LET b == SkipSpace(t, s)
        c == SkipSpace(t, b + 1)
    IN  IF At(t, b, PE) /\ At(t, c, CS) /\ At(t, c + 1, "nl") THEN c + 2 ELSE 0

TagContentEnds(t, q) == {e \in q..(Len(t) - 1) : t[e] = "nl" /\ t[e + 1] = CE}

TagTailOk(t, s) ==
    LET q == TagContentStart(t, s)
    IN  q # 0 /\ TagContentEnds(t, q) # {}

\* the lengths the lazy path group (.*?) can take from a: "." matches no
\* newline, and the rest of the pattern must match behind it
TagPathLens(t, a) ==
    {p \in 0..(Len(t) + 1 - a) :
        /\ \A k \in a..(a + p - 1) : t[k] # "nl"
        /\ TagTailOk(t, a + p)}

TagMatchOk(t, i) == At(t, i, PS) /\ TagPathLens(t, SkipSpace(t, i + 1)) # {}

\* the match that starts at i: its two groups and its last position
TagMatchAt(t, i) ==
    LET a == SkipSpace(t, i + 1)
        p == Min(TagPathLens(t, a))
        q == TagContentStart(t, a + p)
        e == Min(TagContentEnds(t, q))
    IN  [path |-> Slice(t, a, a + p - 1), content |-> Slice(t, q, e - 1), last |-> e + 1]

\* re.findall(pattern, raw_content): the non-overlapping matches from the
\* left, each as its pair of groups
RECURSIVE TagFindallFrom(_, _)
TagFindallFrom(t, from) ==
    LET starts == {i \in from..Len(t) : TagMatchOk(t, i)}
    IN  IF starts = {} THEN <<>>
        ELSE LET m == TagMatchAt(t, Min(starts))
             IN  <<(<<m.path, m.content>>)>> \o TagFindallFrom(t, m.last + 1)

TagFindall(t) == TagFindallFrom(t, 1)

\* ---------------------------------------------- the fallback patterns

IsFence(t, i) == At(t, i, "bt") /\ At(t, i + 1, "bt") /\ At(t, i + 2, "bt")

\* ([\w\-/]+\.)[\s\S]*?```([\s\S]*?)```   (set-up guide, monitoring)
\* ([\w\-/]+\.py)[\s\S]*?```([\s\S]*?)``` (unit tests)
\* ext is what the path group asks for behind the dot: <<>> or <<"p","y">>.
\* The greedy run of path characters must be followed by the dot, so it
\* cannot be shortened; the two lazy groups stop at the first fence.
FallbackPathEnd(t, i, ext) ==
    LET stop == {j \in i..Len(t) : ~IsPathChar(t[j])}
        r == IF stop = {} THEN Len(t) + 1 ELSE Min(stop)
    IN  IF /\ At(t, i, t[i]) /\ IsPathChar(t[i])
           /\ At(t, r, ".")
           /\ r + Len(ext) <= Len(t)
           /\ Slice(t, r + 1, r + Len(ext)) = ext
        THEN r + Len(ext) ELSE 0

FallbackOpens(t, d) == {o \in (d + 1)..Len(t) : IsFence(t, o)}

FallbackCloses(t, o) == {c \in (o + 3)..Len(t) : IsFence(t, c)}

FallbackMatchOk(t, i, ext) ==
    LET d == FallbackPathEnd(t, i, ext)
    IN  /\ d # 0
        /\ FallbackOpens(t, d) # {}
        /\ FallbackCloses(t, Min(FallbackOpens(t, d))) # {}

FallbackMatchAt(t, i, ext) ==
    LET d == FallbackPathEnd(t, i, ext)
        o == Min(FallbackOpens(t, d))
        c == Min(FallbackCloses(t, o))
    IN  [path |-> Slice(t, i, d), content |-> Slice(t, o + 3, c - 1), last |-> c + 2]

RECURSIVE FallbackFindallFrom(_, _, _)
FallbackFindallFrom(t, from, ext) ==
    LET starts == {i \in from..Len(t) : FallbackMatchOk(t, i, ext)}
    IN  IF starts = {} THEN <<>>
        ELSE LET m == FallbackMatchAt(t, Min(starts), ext)
             IN  <<(<<m.path, m.content>>)>> \o FallbackFindallFrom(t, m.last + 1, ext)

FallbackFindall(t, ext) == FallbackFindallFrom(t, 1, ext)

\* ------------------------------------------------------------ mappings

\* A Python dict as the sequence of its <<key, value>> items in insertion
\* order.  d[k] = v keeps the place of a key that is already there.
DictKeys(d) == {d[i][1] : i \in 1..Len(d)}

\* a mapping whose insert would keep the value a key already has
DictSetKeepFirst(d, k, v) ==
    IF k \in {d[i][1] : i \in 1..Len(d)} THEN d ELSE Append(d, <<k, v>>)

DictSet(d, k, v) ==
    IF k \in DictKeys(d)
    THEN [i \in 1..Len(d) |-> IF d[i][1] = k THEN <<k, v>> ELSE d[i]]
    ELSE Append(d, <<k, v>>)

DictGet(d, k) == d[CHOOSE i \in 1..Len(d) : d[i][1] = k][2]

\* dict(pairs) / the loop "for k, v in pairs: d[k] = v"
RECURSIVE DictFrom(_, _)
DictFrom(pairs, d) ==
    IF pairs = <<>> THEN d
    ELSE DictFrom(Tail(pairs), DictSet(d, Head(pairs)[1], Head(pairs)[2]))

\* ------------------------------------------------------------ json.loads

\* A Python value is [kind, val]: "none"; "int" and "str" with their text;
\* "list" with the sequence of its elements; "dict" with its items, keys
\* being texts; "zip" for the bytes of an archive, with its entries;
\* "absent" for a key the record does not hold.
\* String literals are the lexemes "qk", "qv" and "qtf" (the literal
\* "test_files"); "1" is a number.
StrLits == {"qk", "qv", "qtf"}

\* the string a literal denotes
StrOf(c) == IF c = "qk" THEN <<"k">> ELSE IF c = "qv" THEN <<"v">> ELSE <<"test_files">>

PyNone == [kind |-> "none", val |-> <<>>]
PyInt(c) == [kind |-> "int", val |-> <<c>>]
PyStr(text) == [kind |-> "str", val |-> text]
PyList(items) == [kind |-> "list", val |-> items]
PyDict(d) == [kind |-> "dict", val |-> d]
Absent == [kind |-> "absent", val |-> <<>>]

JNull == PyNone
JNum(c) == PyInt(c)
JStr(c) == PyStr(StrOf(c))
JArr(items) == PyList(items)
JObj(d) == PyDict(d)

JFail == [ok |-> FALSE, val |-> JNull, next |-> 0]
JOk(v, n) == [ok |-> TRUE, val |-> v, next |-> n]

RECURSIVE JValue(_, _), JArrItems(_, _, _), JObjItems(_, _, _)

\* the value that starts at i (json.scanner: scan_once)
JValue(t, i) ==
    IF i > Len(t) THEN JFail
    ELSE IF t[i] = "null" THEN JOk(JNull, i + 1)
    ELSE IF t[i] = "1" THEN JOk(JNum(t[i]), i + 1)
    ELSE IF t[i] \in StrLits THEN JOk(JStr(t[i]), i + 1)
    ELSE IF t[i] = "[" THEN
        LET j == SkipSpace(t, i + 1)
        IN  IF At(t, j, "]") THEN JOk(JArr(<<>>), j + 1) ELSE JArrItems(t, j, <<>>)
    ELSE IF t[i] = "{" THEN
        LET j == SkipSpace(t, i + 1)
        IN  IF At(t, j, "}") THEN JOk(JObj(<<>>), j + 1) ELSE JObjItems(t, j, <<>>)
    ELSE JFail

\* the elements of an array from i on, behind "[" or ","
JArrItems(t, i, acc) ==
    LET v == JValue(t, i)
        j == SkipSpace(t, v.next)
    IN  IF ~v.ok THEN JFail
        ELSE IF At(t, j, ",") THEN JArrItems(t, SkipSpace(t, j + 1), Append(acc, v.val))
        ELSE IF At(t, j, "]") THEN JOk(JArr(Append(acc, v.val)), j + 1)
        ELSE JFail

\* the members of an object from i on, behind "{" or ","
JObjItems(t, i, acc) ==
    LET c == SkipSpace(t, i + 1)
        v == JValue(t, SkipSpace(t, c + 1))
        j == SkipSpace(t, v.next)
    IN  IF ~(i <= Len(t) /\ t[i] \in StrLits /\ At(t, c, ":")) THEN JFail
        ELSE IF ~v.ok THEN JFail
        ELSE IF At(t, j, ",") THEN JObjItems(t, SkipSpace(t, j + 1), DictSet(acc, StrOf(t[i]), v.val))
        ELSE IF At(t, j, "}") THEN JOk(JObj(DictSet(acc, StrOf(t[i]), v.val)), j + 1)
        ELSE JFail

\* json.loads(text): one value, white space around it allowed, nothing else.
\* [ok, val]; ~ok is json.JSONDecodeError.
JsonLoads(t) ==
    LET v == JValue(t, SkipSpace(t, 1))
    IN  IF v.ok /\ SkipSpace(t, v.next) = Len(t) + 1
        THEN [ok |-> TRUE, val |-> v.val]
        ELSE [ok |-> FALSE, val |-> JNull]

\* ------------------------------------------------------- safe_json_loads

LineStart(t, i) == i = 1 \/ At(t, i - 1, "nl")

LineEnd(t, i) == i = Len(t) + 1 \/ At(t, i, "nl")

Without(t, drop) ==
    LET Kept(i) == i \notin drop
        kept == SelectSeq([i \in 1..Len(t) |-> i], Kept)
    IN  [j \in 1..Len(kept) |-> t[kept[j]]]

\* re.sub(r"^```(?:json)?", "", t, flags=re.MULTILINE)
RemoveOpenFences(t) ==
    LET starts == {i \in 1..Len(t) : LineStart(t, i) /\ IsFence(t, i)}
    IN  Without(t, UNION {{i, i + 1, i + 2} \cup (IF At(t, i + 3, "json") THEN {i + 3} ELSE {})
                          : i \in starts})

\* re.sub(r"```$", "", t, flags=re.MULTILINE)
RemoveCloseFences(t) ==
    LET starts == {i \in 1..Len(t) : IsFence(t, i) /\ LineEnd(t, i + 3)}
    IN  Without(t, UNION {{i, i + 1, i + 2} : i \in starts})

\* the text safe_json_loads hands to json.loads
CleanJsonText(t) == RemoveCloseFences(Strip(RemoveOpenFences(Strip(t))))

JsonPreviewLimit == 500

\* An exception: its class, its fixed message and the text it quotes.
Exc(class, msg, quoted) == [class |-> class, msg |-> msg, quoted |-> quoted]

NoExc == Exc("none", "", <<>>)

\* a safe_json_loads that would go to json.loads without looking for an
\* empty reply first
SafeJsonLoadsUnguarded(t) ==
    IF JsonLoads(CleanJsonText(t)).ok
    THEN [ok |-> TRUE, val |-> JsonLoads(CleanJsonText(t)).val, exc |-> NoExc]
    ELSE [ok |-> FALSE, val |-> JNull,
          exc |-> Exc("ValueError", "Failed to parse JSON",
                      Take(CleanJsonText(t), JsonPreviewLimit))]

\* a safe_json_loads that would quote the whole text in its error
SafeJsonLoadsWholeText(t) ==
    IF Strip(t) = <<>>
    THEN [ok |-> FALSE, val |-> JNull,
          exc |-> Exc("ValueError", "Empty response received from LLM", <<>>)]
    ELSE IF JsonLoads(CleanJsonText(t)).ok
    THEN [ok |-> TRUE, val |-> JsonLoads(CleanJsonText(t)).val, exc |-> NoExc]
    ELSE [ok |-> FALSE, val |-> JNull,
          exc |-> Exc("ValueError", "Failed to parse JSON", CleanJsonText(t))]

\* safe_json_loads(text): [ok, val, exc]
SafeJsonLoads(t) ==
    IF Strip(t) = <<>>
    THEN [ok |-> FALSE, val |-> JNull,
          exc |-> Exc("ValueError", "Empty response received from LLM", <<>>)]
    ELSE LET c == CleanJsonText(t)
             r == JsonLoads(c)
         IN  IF r.ok THEN [ok |-> TRUE, val |-> r.val, exc |-> NoExc]
             ELSE [ok |-> FALSE, val |-> JNull,
                   exc |-> Exc("ValueError", "Failed to parse JSON", Take(c, JsonPreviewLimit))]

\* ------------------------------------------------------------ exceptions

\* the classes an exception of class c is an instance of
Ancestors(c) ==
    IF c = "JSONDecodeError" THEN {"JSONDecodeError", "ValueError", "Exception", "BaseException"}
    ELSE IF c \in {"ValueError", "KeyError", "AttributeError", "RuntimeError", "IndexError"}
         THEN {c, "Exception", "BaseException"}
    ELSE {c, "BaseException"}

\* an entry of state["errors"]: f"{prefix}{str(e)}"
ErrorText(prefix, e) == [prefix |-> prefix, msg |-> e.msg, quoted |-> e.quoted]

\* an append that would start the list over
AppendErrorReset(st, prefix, e) == [st EXCEPT !.errors = <<ErrorText(prefix, e)>>]

AppendError(st, prefix, e) == [st EXCEPT !.errors = Append(@, ErrorText(prefix, e))]

\* What a stage function hands back: the record, the exception that left the
\* function (NoExc when it returned), and what it did on the way: the number
\* of tag-grammar matches, whether the fallback pattern was evaluated, the
\* file-set slot it assigned ("" when none), whether it assigned the archive,
\* the path it took ("ok", "nofiles", "except") and whether the service was
\* called.
NoTrace ==
    [called |-> TRUE, tagn |-> 0, fallback |-> FALSE, wrote |-> "", zipped |-> FALSE, path |-> "ok"]

Result(st, exc, tr) == [st |-> st, exc |-> exc, tr |-> tr]

\* a handler that would catch ValueError only, whatever class it is given
ExceptAppendValueErrorOnly(r, class, prefix) ==
    IF r.exc = NoExc \/ "ValueError" \notin Ancestors(r.exc.class) THEN r
    ELSE Result(AppendError(r.st, prefix, r.exc), NoExc, [r.tr EXCEPT !.path = "except"])

\* a handler that would also move current_step
ExceptAppendAdvancing(r, class, prefix) ==
    IF r.exc = NoExc \/ class \notin Ancestors(r.exc.class) THEN r
    ELSE Result([AppendError(r.st, prefix, r.exc) EXCEPT !.current_step = "failed"],
                NoExc, [r.tr EXCEPT !.path = "except"])

\* "except <class> as e: state["errors"].append(f"{prefix}{str(e)}"); return state"
\* around a body that ended as r
ExceptAppend(r, class, prefix) ==
    IF r.exc = NoExc \/ class \notin Ancestors(r.exc.class) THEN r
    ELSE Result(AppendError(r.st, prefix, r.exc), NoExc, [r.tr EXCEPT !.path = "except"])

\* ------------------------------------------------------------ the LLM call

\* what the external service does with one request: it raises, or it replies
LlmRaises == [raises |-> TRUE, content |-> <<>>]
LlmReplies(text) == [raises |-> FALSE, content |-> text]
NoCall == [raises |-> FALSE, content |-> <<"no call">>]

\* chain.ainvoke(inputs) / chain.invoke(inputs) for a prompt template with
\* the variables vars and a mapping with the keys inputs: ChatPromptTemplate
\* raises KeyError for a variable the mapping does not hold, before the
\* service is called.  [exc, content, called]
Invoke(vars, inputs, llm) ==
    IF ~(vars \subseteq inputs)
    THEN [exc |-> Exc("KeyError", "prompt variable missing", <<>>), content |-> <<>>, called |-> FALSE]
    ELSE IF llm.raises
    THEN [exc |-> Exc("RuntimeError", "llm call failed", <<>>), content |-> <<>>, called |-> TRUE]
    ELSE [exc |-> NoExc, content |-> llm.content, called |-> TRUE]

\* ------------------------------------------- the file-producing block

FilePreviewLimit == 1000

\* "if not matches:" (and, negated, "if fallback_matches:")
NoMatches(m) == m = <<>>

\* a loop that would store path and content as the pattern captured them
RECURSIVE FilesFromUntrimmed(_, _)
FilesFromUntrimmed(matches, files) ==
    IF matches = <<>> THEN files
    ELSE FilesFromUntrimmed(Tail(matches),
                            DictSet(files, Head(matches)[1], PyStr(Head(matches)[2])))

\* a loop that would go through the matches from the last to the first
RECURSIVE FilesFromNewestFirst(_, _)
FilesFromNewestFirst(matches, files) ==
    IF matches = <<>> THEN files
    ELSE FilesFromNewestFirst(SubSeq(matches, 1, Len(matches) - 1),
                              DictSet(files, Strip(matches[Len(matches)][1]),
                                      PyStr(Strip(matches[Len(matches)][2]))))

\* for file_path, file_content in matches:
\*     files[file_path.strip()] = file_content.strip()
RECURSIVE FilesFrom(_, _)
FilesFrom(matches, files) ==
    IF matches = <<>> THEN files
    ELSE FilesFrom(Tail(matches),
                   DictSet(files, Strip(Head(matches)[1]), PyStr(Strip(Head(matches)[2]))))

\* with zipfile.ZipFile(zip_buffer, "w", ZIP_DEFLATED) as zip_file:
\*     for path, content in files.items(): zip_file.writestr(path, content)
\* the archive as the sequence of its entries <<name, data>>
ZipOf(files) == [kind |-> "zip", val |-> [i \in 1..Len(files) |-> <<files[i][1], files[i][2].val>>]]

\* an error entry that would quote the whole reply
NoFilesErrorWhole(raw) ==
    [prefix |-> "Code generation failed: No files found in LLM response. Raw content:",
     msg |-> "", quoted |-> raw]

NoFilesError(raw) ==
    [prefix |-> "Code generation failed: No files found in LLM response. Raw content:",
     msg |-> "", quoted |-> Take(raw, FilePreviewLimit)]

\* state[slot] = files, then the archive
StoreFiles(st, slot, files) ==
    [st EXCEPT ![slot] = PyDict(files), !.generated_zip = ZipOf(files)]

\* zip_file.writestr(path, content) looks at the last character of the name
\* (zinfo.filename[-1]), which the empty name does not have
WriteStrRaises(files) == \E i \in 1..Len(files) : files[i][1] = <<>>

\* state[slot] = files, then the archive is written entry by entry into a
\* buffer, then state["generated_zip"] and state["current_step"] are
\* assigned: an entry that cannot be written leaves the slot assigned and
\* the rest undone
StoreThenZip(st, slot, next, files, tr) ==
    IF WriteStrRaises(files)
    THEN Result([st EXCEPT ![slot] = PyDict(files)],
                Exc("IndexError", "string index out of range", <<>>),
                [tr EXCEPT !.zipped = FALSE])
    ELSE Result([StoreFiles(st, slot, files) EXCEPT !.current_step = next], NoExc, tr)

\* a block that would try the fallback matches before the tag-grammar ones
StoreMatchesFallbackFirst(st, slot, next, raw, matches, fallback_matches) ==
    IF ~NoMatches(fallback_matches)
    THEN StoreThenZip(st, slot, next, FilesFrom(fallback_matches, <<>>),
                      [called |-> TRUE, tagn |-> Len(matches), fallback |-> TRUE, wrote |-> slot,
                       zipped |-> TRUE, path |-> "ok"])
    ELSE IF NoMatches(matches)
    THEN Result([st EXCEPT !.errors = Append(@, NoFilesError(raw)),
                           ![slot] = PyDict(<<>>),
                           !.current_step = next],
                NoExc,
                [called |-> TRUE, tagn |-> Len(matches), fallback |-> TRUE, wrote |-> slot,
                 zipped |-> FALSE, path |-> "nofiles"])
    ELSE StoreThenZip(st, slot, next, FilesFrom(matches, <<>>),
                      [called |-> TRUE, tagn |-> Len(matches), fallback |-> FALSE, wrote |-> slot,
                       zipped |-> TRUE, path |-> "ok"])

\* "if not matches:" with both outcomes of "if fallback_matches:" and the
\* loop over the matches that were found: slot is the stage's file-set slot,
\* next the label it leaves in current_step
StoreMatches(st, slot, next, raw, matches, fallback_matches) ==
    IF NoMatches(matches)
    THEN IF ~NoMatches(fallback_matches)
         THEN StoreThenZip(st, slot, next, FilesFrom(fallback_matches, <<>>),
                           [called |-> TRUE, tagn |-> Len(matches), fallback |-> TRUE,
                            wrote |-> slot, zipped |-> TRUE, path |-> "ok"])
         ELSE Result([st EXCEPT !.errors = Append(@, NoFilesError(raw)),
                                ![slot] = PyDict(<<>>),
                                !.current_step = next],
                     NoExc,
                     [called |-> TRUE, tagn |-> Len(matches), fallback |-> TRUE, wrote |-> slot,
                      zipped |-> FALSE, path |-> "nofiles"])
    ELSE StoreThenZip(st, slot, next, FilesFrom(matches, <<>>),
                      [called |-> TRUE, tagn |-> Len(matches), fallback |-> FALSE, wrote |-> slot,
                       zipped |-> TRUE, path |-> "ok"])

\* matches = re.findall(pattern, raw_content), and the fallback pattern of
\* the stage: ext is what it asks for behind the dot
FindMatches(st, slot, ext, next, raw) ==
    StoreMatches(st, slot, next, raw, TagFindall(raw), FallbackFindall(raw, ext))

\* The block the file-producing stages share, from
\* "raw_content = response.content.strip()" to the assignment of current_step
ExtractAndStore(st, slot, ext, next, content) ==
    FindMatches(st, slot, ext, next, Strip(content))

\* a try body that would swallow the failure of the call and go on as if
\* nothing had been asked
RaisedSwallowed(st, inv) == Result(st, NoExc, [NoTrace EXCEPT !.called = inv.called])

\* the chain raised inside the try body: the exception goes to the handler
Raised(st, inv) == Result(st, inv.exc, [NoTrace EXCEPT !.called = inv.called])

\* ------------------------------------------------------------ the stages

\* app/agent/SwaggerAnalyzerAgent.py: state["metadata"] = analysis
StoreAnalysis(st, analysis) ==
    IF ~analysis.ok THEN Result(st, analysis.exc, NoTrace)
    ELSE Result([st EXCEPT !.metadata = analysis.val, !.current_step = "user_stories"],
                NoExc, NoTrace)

\* app/agent/SwaggerAnalyzerAgent.py: the try body
AnalyzeTry(st, inv) ==
    IF inv.exc # NoExc THEN Raised(st, inv)
    ELSE StoreAnalysis(st, SafeJsonLoads(inv.content))

\* app/agent/SwaggerAnalyzerAgent.py
Analyze(st, llm) ==
    ExceptAppend(AnalyzeTry(st, Invoke({"swagger_content"}, {"swagger_content"}, llm)),
                 "Exception", "Swagger analysis failed: ")

\* app/agent/req/SwaggerAnalyzerAgent.py: state["metadata"] = raw_content
StoreRawAnalysis(st, raw_content) ==
    IF ~raw_content.ok
    THEN Result(st, Exc("JSONDecodeError", "json.loads failed", <<>>), NoTrace)
    ELSE Result([st EXCEPT !.metadata = raw_content.val, !.current_step = "user_stories"],
                NoExc, NoTrace)

\* app/agent/req/SwaggerAnalyzerAgent.py: the try body, json.loads on the
\* reply as it came
AnalyzeReqTry(st, inv) ==
    IF inv.exc # NoExc THEN Raised(st, inv)
    ELSE StoreRawAnalysis(st, JsonLoads(inv.content))

\* app/agent/req/SwaggerAnalyzerAgent.py
AnalyzeReq(st, llm) ==
    ExceptAppend(AnalyzeReqTry(st, Invoke({"swagger_content"}, {"swagger_content"}, llm)),
                 "Exception", "Swagger analysis failed: ")

\* a story stage that would store its result over the analysis as well
StoreStoriesOverMetadata(st, stories) ==
    IF ~stories.ok THEN Result(st, stories.exc, NoTrace)
    ELSE Result([st EXCEPT !.user_stories = stories.val, !.metadata = stories.val,
                           !.current_step = "code_generation"],
                NoExc, NoTrace)

\* app/agent/UserStoryGenerationAgent.py: state["user_stories"] = stories
StoreStories(st, stories) ==
    IF ~stories.ok THEN Result(st, stories.exc, NoTrace)
    ELSE Result([st EXCEPT !.user_stories = stories.val, !.current_step = "code_generation"],
                NoExc, NoTrace)

\* app/agent/UserStoryGenerationAgent.py: the try body
GenerateStoriesTry(st, inv) ==
    IF inv.exc # NoExc THEN Raised(st, inv)
    ELSE StoreStories(st, SafeJsonLoads(inv.content))

\* app/agent/UserStoryGenerationAgent.py
GenerateStories(st, llm) ==
    ExceptAppend(GenerateStoriesTry(st, Invoke({"analysis", "paths"}, {"analysis", "paths"}, llm)),
                 "Exception", "User story generation failed: ")

\* app/agent/CodeGenerationAgent.py: state["generated_code"] = code_files
StoreCodeFiles(st, code_files) ==
    IF ~code_files.ok THEN Result(st, code_files.exc, NoTrace)
    ELSE Result([st EXCEPT !.generated_code = code_files.val,
                           !.current_step = "test_generation"],
                NoExc, [NoTrace EXCEPT !.wrote = "generated_code"])

\* app/agent/CodeGenerationAgent.py: the try body
GenerateCodeTry(st, inv) ==
    IF inv.exc # NoExc THEN Raised(st, inv)
    ELSE StoreCodeFiles(st, SafeJsonLoads(inv.content))

\* app/agent/CodeGenerationAgent.py
GenerateCode(st, llm) ==
    ExceptAppend(GenerateCodeTry(st, Invoke({"swagger_content", "user_stories", "framework"},
                                            {"swagger_content", "user_stories", "framework"}, llm)),
                 "Exception", "Code generation failed: ")

\* TestGeneratorAgent._enrich_test_suite with _estimate_actual_coverage and
\* _count_tests_in_suite: a reply that is no mapping becomes a note; a
\* mapping whose "test_files" is no mapping has no .values(); otherwise
\* three entries are added to the suite.  [exc, val]
EnrichTestSuite(test_suite) ==
    IF test_suite.kind # "dict"
    THEN [exc |-> NoExc,
          val |-> PyDict(<< <<(<<"error">>), PyStr(<<"Invalid test suite format">>)>>,
                            <<(<<"raw_content">>), PyStr(<<"str", test_suite.kind>>)>> >>)]
    ELSE IF /\ <<"test_files">> \in DictKeys(test_suite.val)
            /\ DictGet(test_suite.val, <<"test_files">>).kind # "dict"
    THEN [exc |-> Exc("AttributeError", "object has no attribute values", <<>>), val |-> PyNone]
    ELSE [exc |-> NoExc,
          val |-> PyDict(DictSet(DictSet(DictSet(test_suite.val,
                      <<"coverage_validation">>, PyDict(<<>>)),
                      <<"execution_metadata">>, PyDict(<<>>)),
                      <<"quality_gates">>, PyDict(<<>>)))]

\* app/agent/UnitTestcaseGenerationAgent.py: state["unit_tests"] = enriched_suite
StoreEnrichedSuite(st, enriched_suite) ==
    IF enriched_suite.exc # NoExc THEN Result(st, enriched_suite.exc, NoTrace)
    ELSE Result([st EXCEPT !.unit_tests = enriched_suite.val,
                           !.test_coverage_target = PyInt("70"),
                           !.test_generation_metadata = PyStr(<<"generated">>),
                           !.current_step = "test_validation"],
                NoExc, [NoTrace EXCEPT !.wrote = "unit_tests"])

\* app/agent/UnitTestcaseGenerationAgent.py: test_suite = safe_json_loads(...)
EnrichParsed(st, test_suite) ==
    IF ~test_suite.ok THEN Result(st, test_suite.exc, NoTrace)
    ELSE StoreEnrichedSuite(st, EnrichTestSuite(test_suite.val))

\* app/agent/UnitTestcaseGenerationAgent.py: the try body
GenerateTestsTry(st, inv) ==
    IF inv.exc # NoExc THEN Raised(st, inv)
    ELSE EnrichParsed(st, SafeJsonLoads(inv.content))

\* app/agent/UnitTestcaseGenerationAgent.py: the two except clauses in the
\* order they are written, around a try body that ended as r
GenerateTestsExcept(inv, r) ==
    IF r.exc = NoExc THEN r
    ELSE IF "JSONDecodeError" \in Ancestors(r.exc.class)
    THEN Result([AppendError(r.st, "Failed to parse test generation response as JSON: ", r.exc)
                    EXCEPT !.unit_tests = PyDict(
                        << <<(<<"generation_error">>), PyStr(<<"json_parse_failure">>)>>,
                           <<(<<"raw_response">>),
                             PyStr(IF inv.exc = NoExc THEN inv.content
                                   ELSE <<"No response generated">>)>>,
                           <<(<<"error_details">>), PyStr(<<r.exc.msg>>)>> >>)],
                NoExc, [r.tr EXCEPT !.path = "except", !.wrote = "unit_tests"])
    ELSE IF "Exception" \in Ancestors(r.exc.class)
    THEN Result([AppendError(r.st, "Test generation failed: ", r.exc)
                    EXCEPT !.test_generation_metadata = PyStr(<<"failed">>)],
                NoExc, [r.tr EXCEPT !.path = "except"])
    ELSE r

\* app/agent/UnitTestcaseGenerationAgent.py: try and except around one call
GenerateTestsWith(st, inv) == GenerateTestsExcept(inv, GenerateTestsTry(st, inv))

\* app/agent/UnitTestcaseGenerationAgent.py: the structured test stage
GenerateTestsJson(st, llm) ==
    GenerateTestsWith(st, Invoke({"swagger_content", "generated_code", "user_stories", "test_framework"},
                                 {"swagger_content", "generated_code", "user_stories", "test_framework"},
                                 llm))

\* the try body of a file-producing stage
FilesTry(st, slot, ext, next, inv) ==
    IF inv.exc # NoExc THEN Raised(st, inv)
    ELSE ExtractAndStore(st, slot, ext, next, inv.content)

\* app/agent/test/UnitTestcaseGenerationAgent.py: the file-producing test stage
GenerateTestsFiles(st, llm) ==
    ExceptAppend(FilesTry(st, "unit_tests", <<"p", "y">>, "generated_container_code",
                          Invoke({"generated_code", "test_framework"},
                                 {"generated_code", "test_framework"}, llm)),
                 "Exception", "Code generation failed: ")

\* ContainerziedCodeGenerationAgent.generate_code: a file-producing stage
ContainerGenerateCode(st, llm) ==
    ExceptAppend(FilesTry(st, "generated_container_code", <<>>, "generated_monitor_configs",
                          Invoke({}, {}, llm)),
                 "Exception", "container code  failed: ")

\* app/agent/monitor/ProductionMonitorAgent.py
MonitorGenerateCode(st, llm) ==
    ExceptAppend(FilesTry(st, "generated_monitor_configs", <<>>, "end",
                          Invoke({"paths"}, {"paths"}, llm)),
                 "Exception", "configs code  failed: ")

\* app/agent/SetUpguideAgent.py: the template names test_framework, the
\* mapping handed to the chain does not hold it
SetUpGenerateCode(st, llm) ==
    ExceptAppend(FilesTry(st, "generated_readme_code", <<>>, "generated_readme_code",
                          Invoke({"generated_container_code", "generated_code", "test_framework",
                                  "swagger_content"},
                                 {"swagger_content", "user_stories", "generated_code",
                                  "generated_container_code"}, llm)),
                 "Exception", "container code  failed: ")

\* ------------------------------------------------------------ the workflows

\* AgenticWorkflow.__init__: self.framework, self.test_framework
Framework == PyStr(<<"FastAPI">>)
TestFramework == PyStr(<<"pytest">>)

\* _build_workflow.generate_code_with_framework
GenerateCodeWithFramework(st, llm) == GenerateCode([st EXCEPT !.framework = Framework], llm)

\* _build_workflow.generate_code_with_test_framework
GenerateCodeWithTestFramework(st, llm) ==
    GenerateTestsFiles([st EXCEPT !.test_framework = TestFramework], llm)

\* ------------------------------------------------ the archive on disk

\* The file system as a mapping from path to what is there: a directory, or
\* a file holding an archive.  A path is a text; "/" separates its parts.
Dir == [kind |-> "dir", val |-> <<>>]

ZipFileOf(entries) == [kind |-> "zip", val |-> entries]

NoDisk == <<>>

Slashes(path) == {i \in 1..Len(path) : path[i] = "/"}

Max(S) == CHOOSE x \in S : \A y \in S : x >= y

\* Path(filename).name, for a path whose last part is neither empty nor a
\* lone dot: what stands behind the last "/"
PathName(path) ==
    IF Slashes(path) = {} THEN path ELSE Slice(path, Max(Slashes(path)) + 1, Len(path))

\* os.path.dirname(path)
DirName(path) ==
    IF Slashes(path) = {} THEN <<>> ELSE Take(path, Max(Slashes(path)) - 1)

Dots(name) == {i \in 1..Len(name) : name[i] = "."}

\* "Path(filename).suffix" is not empty: the last dot of the name is neither
\* its first nor its last character
HasSuffix(filename) ==
    /\ Dots(PathName(filename)) # {}
    /\ 1 < Max(Dots(PathName(filename)))
    /\ Max(Dots(PathName(filename))) < Len(PathName(filename))

\* "x in content_lower" for a phrase that is one lexeme of the content
Has(content, phrases) == \E i \in 1..Len(content) : content[i] \in phrases

\* "'class ' in content_lower": the lexeme itself, or the end of
\* "public class" with the blank behind it
HasClass(content) ==
    \/ Has(content, {"class "})
    \/ \E i \in 1..(Len(content) - 1) : content[i] = "public class" /\ content[i + 1] = "sp"

\* CodeGeneratorAgent._guess_file_extension
GuessFileExtension(content) ==
    IF Has(content, {"from fastapi", "import fastapi"}) THEN <<".", "p", "y">>
    ELSE IF Has(content, {"from flask", "import flask"}) THEN <<".", "p", "y">>
    ELSE IF Has(content, {"from django", "import django"}) THEN <<".", "p", "y">>
    ELSE IF HasClass(content) /\ Has(content, {"def "}) THEN <<".", "p", "y">>
    ELSE IF Has(content, {"function ", "const ", "let "}) THEN <<".", "j", "s">>
    ELSE IF Has(content, {"public class", "import java"}) THEN <<".", "j", "a", "v", "a">>
    ELSE IF Has(content, {"<?xml", "<project>"}) THEN <<".", "x", "m", "l">>
    ELSE IF /\ Strip(content) # <<>>
            /\ Head(Strip(content)) = "{"
            /\ Strip(content)[Len(Strip(content))] = "}" THEN <<".", "json">>
    ELSE IF Has(content, {"version:", "dependencies:"}) THEN <<".", "y", "m", "l">>
    ELSE <<".", "t", "x", "t">>

\* a loop that would write every entry under the name the mapping gives
RECURSIVE ZipEntriesAsNamed(_, _)
ZipEntriesAsNamed(items, entries) ==
    IF items = <<>> THEN [entries |-> entries, exc |-> NoExc]
    ELSE IF Head(items)[2].kind # "str"
    THEN [entries |-> entries, exc |-> Exc("TypeError", "writestr", <<>>)]
    ELSE ZipEntriesAsNamed(Tail(items),
                           Append(entries, <<Head(items)[1], Head(items)[2].val>>))

\* for filename, content in code_files.items():
\*     if not Path(filename).suffix and self._guess_file_extension(content):
\*         filename += self._guess_file_extension(content)
\*     zipf.writestr(filename, content)
\* The loop ends at the first content that is no text, with the entries
\* written before it: [entries, exc]
RECURSIVE ZipEntries(_, _)
ZipEntries(items, entries) ==
    IF items = <<>> THEN [entries |-> entries, exc |-> NoExc]
    ELSE IF Head(items)[2].kind # "str"
    THEN [entries |-> entries,
          exc |-> IF HasSuffix(Head(items)[1]) THEN Exc("TypeError", "writestr", <<>>)
                  ELSE Exc("AttributeError", "lower", <<>>)]
    ELSE ZipEntries(Tail(items),
                    Append(entries,
                           <<IF HasSuffix(Head(items)[1]) THEN Head(items)[1]
                             ELSE Head(items)[1] \o GuessFileExtension(Head(items)[2].val),
                             Head(items)[2].val>>))

\* what a packaging call hands back: the file system behind it, the
\* exception that left it and the path it returned (PyNone when none)
Packaged(fs, exc, ret) == [fs |-> fs, exc |-> exc, ret |-> ret]

\* the with block is left: the archive at path holds what the loop wrote
WriteZip(fs, path, written) ==
    Packaged(DictSet(fs, path, ZipFileOf(written.entries)),
             written.exc,
             IF written.exc = NoExc THEN PyStr(path) ELSE PyNone)

\* zipfile.ZipFile(output_path, 'w', ...) creates the file, or fails when
\* the directory it is to stand in does not exist
OpenZip(code_files, path, fs) ==
    IF DirName(path) # <<>> /\ DirName(path) \notin DictKeys(fs)
    THEN Packaged(fs, Exc("FileNotFoundError", "open", path), PyNone)
    ELSE IF code_files.kind # "dict"
    THEN WriteZip(fs, path, [entries |-> <<>>, exc |-> Exc("AttributeError", "items", <<>>)])
    ELSE WriteZip(fs, path, ZipEntries(code_files.val, <<>>))

\* CodeGeneratorAgent.create_zip_from_generated_code
CreateZipFromGeneratedCode(code_files, output_path, fs) ==
    OpenZip(code_files,
            IF output_path = PyNone THEN <<"generated_code.zip">> ELSE output_path.val,
            fs)

\* a download that would pack whatever generate_code left, errors or not
DownloadGeneratedDespiteErrors(r, output_path, fs) ==
    [st |-> r.st] @@ CreateZipFromGeneratedCode(r.st.generated_code, output_path, fs)

\* a download that would hold back only when generate_code itself failed
DownloadGeneratedUnlessFailed(r, output_path, fs) ==
    IF r.exc # NoExc THEN [st |-> r.st] @@ Packaged(fs, r.exc, PyNone)
    ELSE IF r.tr.path = "except" THEN [st |-> r.st] @@ Packaged(fs, NoExc, PyNone)
    ELSE [st |-> r.st] @@ CreateZipFromGeneratedCode(r.st.generated_code, output_path, fs)

\* CodeGeneratorAgent.generate_and_download_code behind generate_code:
\* [st, fs, exc, ret]
DownloadGenerated(r, output_path, fs) ==
    IF r.exc # NoExc THEN [st |-> r.st] @@ Packaged(fs, r.exc, PyNone)
    ELSE IF r.st.errors # <<>> THEN [st |-> r.st] @@ Packaged(fs, NoExc, PyNone)
    ELSE [st |-> r.st] @@ CreateZipFromGeneratedCode(r.st.generated_code, output_path, fs)

\* CodeGeneratorAgent.generate_and_download_code
GenerateAndDownloadCode(st, llm, output_path, fs) ==
    DownloadGenerated(GenerateCode(st, llm), output_path, fs)

\* generate_code_and_create_zip: initial_state
DownloadInitialState(swagger_content, user_stories) ==
    [swagger_content |-> swagger_content,
     user_stories |-> user_stories,
     generated_code |-> PyDict(<<>>),
     errors |-> <<>>,
     current_step |-> "code_generation"]

OutputDir == <<"./output">>

\* os.makedirs(output_dir, exist_ok=True)
MakeDirs(fs, dir) == IF dir \in DictKeys(fs) THEN fs ELSE DictSet(fs, dir, Dir)

\* generate_code_and_create_zip: "if final_state["errors"]: return None"
ZipPathUnlessErrors(d) ==
    IF d.exc = NoExc /\ d.st.errors # <<>> THEN [d EXCEPT !.ret = PyNone] ELSE d

\* generate_code_and_create_zip with the default framework and output_dir
GenerateCodeAndCreateZip(swagger_content, user_stories, llm, fs) ==
    ZipPathUnlessErrors(
        GenerateAndDownloadCode(DownloadInitialState(swagger_content, user_stories), llm,
                                PyStr(OutputDir \o <<"/", "generated_fastapi_code.zip">>),
                                MakeDirs(fs, OutputDir)))

\* a seven-stage graph that would go from the test stage to the monitor stage
EdgeSkippingContainer(g, n) ==
    IF g = "agentic"
    THEN CASE n = "analyze_swagger" -> "generate_stories"
           [] n = "generate_stories" -> "generate_code"
           [] n = "generate_code" -> "generate_tests"
           [] n = "generate_tests" -> "generated_monitor_configs"
           [] n = "generated_container_code" -> "generated_monitor_configs"
           [] n = "generated_monitor_configs" -> "generated_readme_code"
           [] n = "generated_readme_code" -> "END"
    ELSE CASE n = "analyze_swagger" -> "generate_stories"
           [] n = "generate_stories" -> "generate_code"
           [] n = "generate_code" -> "generate_tests"
           [] n = "generate_tests" -> "END"

\* the edges of the two graphs: the node that follows n
Edge(g, n) ==
    IF g = "agentic"
    THEN CASE n = "analyze_swagger" -> "generate_stories"
           [] n = "generate_stories" -> "generate_code"
           [] n = "generate_code" -> "generate_tests"
           [] n = "generate_tests" -> "generated_container_code"
           [] n = "generated_container_code" -> "generated_monitor_configs"
           [] n = "generated_monitor_configs" -> "generated_readme_code"
           [] n = "generated_readme_code" -> "END"
    ELSE CASE n = "analyze_swagger" -> "generate_stories"
           [] n = "generate_stories" -> "generate_code"
           [] n = "generate_code" -> "generate_tests"
           [] n = "generate_tests" -> "END"

\* the keys a stage can set that run_workflow does not put in the record
NoKeys ==
    [generated_readme_code |-> Absent, generated_zip |-> Absent, framework |-> Absent,
     test_framework |-> Absent, test_generation_metadata |-> Absent,
     test_coverage_target |-> Absent]

\* AgenticWorkflow.run_workflow (app/workflow/AgenticWorkflow.py): initial_state
AgenticInitialState(swagger_content) ==
    [swagger_content |-> swagger_content,
     user_stories |-> PyList(<<>>),
     generated_code |-> PyDict(<<>>),
     unit_tests |-> PyDict(<<>>),
     generated_container_code |-> PyDict(<<>>),
     readme |-> PyDict(<<>>),
     generated_monitor_configs |-> PyDict(<<>>),
     current_step |-> "analyze_swagger",
     errors |-> <<>>,
     metadata |-> PyDict(<<>>)] @@ NoKeys

\* AgenticWorkflow.run_workflow (app/workflow/langgraph_agentic_workflow.py)
LanggraphInitialState(swagger_content) ==
    [swagger_content |-> swagger_content,
     user_stories |-> PyList(<<>>),
     generated_code |-> PyDict(<<>>),
     unit_tests |-> PyDict(<<>>),
     generated_container_code |-> Absent,
     readme |-> Absent,
     generated_monitor_configs |-> Absent,
     current_step |-> "analyze_swagger",
     errors |-> <<>>,
     metadata |-> PyDict(<<>>)] @@ NoKeys

\* the function _build_workflow registers for the node n of the seven-stage
\* graph
StageOf(n, st, llm) ==
    CASE n = "analyze_swagger" -> AnalyzeReq(st, llm)
      [] n = "generate_stories" -> GenerateStories(st, llm)
      [] n = "generate_code" -> GenerateCodeWithFramework(st, llm)
      [] n = "generate_tests" -> GenerateCodeWithTestFramework(st, llm)
      [] n = "generated_container_code" -> ContainerGenerateCode(st, llm)
      [] n = "generated_monitor_configs" -> MonitorGenerateCode(st, llm)
      [] n = "generated_readme_code" -> SetUpGenerateCode(st, llm)

\* what a node function does before it awaits the service: the wrappers of
\* the code and test nodes copy the object's framework into the record
BeforeAwait(n, st) ==
    CASE n = "generate_code" -> [st EXCEPT !.framework = Framework]
      [] n = "generate_tests" -> [st EXCEPT !.test_framework = TestFramework]
      [] OTHER -> st

\* an allocation that would hand out the first record again
AllocateOnce(heap, record) ==
    IF heap = <<>> THEN [heap |-> <<record>>, ref |-> Len(heap) + 1]
    ELSE [heap |-> heap, ref |-> Len(heap)]

\* "initial_state = {...}": a new object, at a reference of its own
Allocate(heap, record) == [heap |-> Append(heap, record), ref |-> Len(heap) + 1]

\* ------------------------------------------------------------ the inputs

\* how far the long reply runs over the preview limit
PadOver == 1

Pad(n) == [i \in 1..n |-> "#"]

\* one block in the layout the prompts ask for: the end marker on a line of
\* its own
Block(path, content) ==
    <<PS, "sp">> \o path \o <<"sp", PE, "nl", CS, "nl">> \o content \o <<"nl", CE>>

\* one block with the end marker right behind the content
TightBlock(path, content) ==
    <<PS, "sp">> \o path \o <<"sp", PE, "nl", CS, "nl">> \o content \o <<CE>>

PathA == <<"a", ".", "p", "y">>
PathB == <<"b", ".", "p", "y">>

Fence == <<"bt", "bt", "bt">>

\* a path, and behind it a fenced code block
FencedFile == PathA \o <<"nl">> \o Fence \o <<"nl", "c", "nl">> \o Fence

\* the replies the file-producing stages are given in a run of the pipeline
FileReplies ==
    { Block(PathA, <<"c">>),
      Block(<<>>, <<"c">>),
      FencedFile,
      Pad(FilePreviewLimit + PadOver),
      <<>> }

JsonObjectText == <<"{", "qk", ":", "qv", "}">>

\* the replies the structured stages are given
JsonReplies ==
    { JsonObjectText,
      Fence \o <<"json", "nl">> \o JsonObjectText \o <<"nl">> \o Fence,
      <<"null">>,
      <<"a", "sp", "a">>,
      <<>> }

\* the structured test stage is also given a suite whose "test_files" is a list
TestSuiteReplies == JsonReplies \cup {<<"{", "qtf", ":", "[", "]", "}">>}

FileLlm == {LlmRaises} \cup {LlmReplies(t) : t \in FileReplies}
JsonLlm == {LlmRaises} \cup {LlmReplies(t) : t \in JsonReplies}
TestSuiteLlm == {LlmRaises} \cup {LlmReplies(t) : t \in TestSuiteReplies}

Swaggers == {PyDict(<< <<(<<"paths">>), PyDict(<<>>)>> >>)}

\* the most blocks a reply under test is built from
MaxBlocks == 2

\* the paths a block declares: two names, and no name at all
BlockPaths == {PathA, PathB, <<>>}

BlockContents == {<<>>, <<"c">>, <<"sp", "c", "nl">>, <<"c", "nl", "b">>}

\* a block: its path, its content, and how its end marker is laid out
Blocks == [path : BlockPaths, content : BlockContents, layout : {"lines", "tight"}]

BlockLists == UNION {[1..n -> Blocks] : n \in 0..MaxBlocks}

BlockText(b) ==
    IF b.layout = "lines" THEN Block(b.path, b.content) ELSE TightBlock(b.path, b.content)

\* the reply built by joining blocks, one below the other
RECURSIVE JoinBlocks(_)
JoinBlocks(bl) ==
    IF bl = <<>> THEN <<>> ELSE BlockText(Head(bl)) \o <<"nl">> \o JoinBlocks(Tail(bl))

\* what a reply under test has in front of its blocks
Prefixes == {<<>>, FencedFile \o <<"nl">>}

\* the most pieces a reply to a structured stage is put together from
MaxPieces == 4

\* what such a reply is put together from: blanks, line ends, a run of three
\* backticks, the language tag, and a JSON number
ReplyPieces == {<<"sp">>, <<"nl">>, Fence, <<"json">>, <<"1">>}

RECURSIVE Flatten(_)
Flatten(ps) == IF ps = <<>> THEN <<>> ELSE Head(ps) \o Flatten(Tail(ps))

\* a symbol stands for one lexeme: two numbers never stand side by side
OneLexemeEach(t) == \A i \in 1..(Len(t) - 1) : ~(t[i] = "1" /\ t[i + 1] = "1")

PieceTexts ==
    {t \in {Flatten(ps) : ps \in UNION {[1..n -> ReplyPieces] : n \in 0..MaxPieces}} :
        OneLexemeEach(t)}

\* fenced replies: the tag the pattern knows, another tag, no tag, and a run
\* of backticks on a line between two others
FencedTexts ==
    { Fence \o <<"json", "nl">> \o JsonObjectText \o <<"nl">> \o Fence,
      Fence \o <<"a", "nl">> \o JsonObjectText \o <<"nl">> \o Fence,
      Fence \o <<"nl">> \o JsonObjectText \o <<"nl">> \o Fence,
      <<"[", "1", ",", "nl">> \o Fence \o <<"nl", "1", "]">>,
      <<"[", "nl", "1">> \o Fence \o <<"nl", "]">> }

\* how deep the JSON values with missing closing tokens nest
MaxDepth == 3

\* the kinds of container, outermost first
Nestings == UNION {[1..n -> {"[", "{"}] : n \in 1..MaxDepth}

RECURSIVE Openers(_)
Openers(nest) ==
    IF nest = <<>> THEN <<>>
    ELSE (IF Head(nest) = "[" THEN <<"[">> ELSE <<"{", "qk", ":">>) \o Openers(Tail(nest))

RECURSIVE Closers(_)
Closers(nest) ==
    IF nest = <<>> THEN <<>>
    ELSE Closers(Tail(nest)) \o (IF Head(nest) = "[" THEN <<"]">> ELSE <<"}">>)

\* the number 1 inside the containers of nest, closed
Nested(nest) == Openers(nest) \o <<"1">> \o Closers(nest)

\* the same text with its last k closing tokens missing
Truncated(nest, k) == Take(Nested(nest), Len(Nested(nest)) - k)

TruncatedTexts == {Truncated(nest, k) : nest \in Nestings, k \in 0..MaxDepth}

\* a JSON value with words around it, in front of it, behind it
SurroundedTexts ==
    { <<"a", "sp">> \o JsonObjectText \o <<"sp", "a">>,
      <<"a", "nl", "[", "1", "]">>,
      JsonObjectText \o <<"nl", "a">> }

\* the replies a stage under test is given
ReplyTexts ==
    PieceTexts \cup FencedTexts \cup TruncatedTexts \cup SurroundedTexts
    \cup {Pad(JsonPreviewLimit + PadOver)}

\* an entry an earlier stage has left in errors
EarlierError ==
    ErrorText("Swagger analysis failed: ", Exc("RuntimeError", "llm call failed", <<>>))

\* the most files a mapping handed to the packager holds
MaxFiles == 2

ZipNames == {PathA, <<"a">>}

ZipContents == {PyStr(<<"c">>), PyStr(<<"from fastapi", "nl", "c">>)}

ZipItems == {<<name, content>> : name \in ZipNames, content \in ZipContents}

\* the mappings of distinct names to texts, and two values that are none
CodeFiles ==
    {PyDict(d) : d \in {d \in UNION {[1..n -> ZipItems] : n \in 0..MaxFiles} :
                           \A i, j \in 1..Len(d) : d[i][1] = d[j][1] => i = j}}
    \cup {PyNone, PyDict(<< <<(<<"a">>), PyInt("1")>> >>)}

\* the output paths a packaging call is given: none, a file in the working
\* directory, a file in a directory that does not exist
OutputPaths == {PyNone, PyStr(<<"out.zip">>), PyStr(<<"tmp", "/", "out.zip">>)}

\* the most calls of run_workflow that are under way on one object
MaxRuns == 2

\* how the service answers a run: it raises every time, it replies with what
\* the stage asks for, or it replies with the empty text
Scripts == {"raises", "replies", "empty"}

LlmOf(script, n) ==
    IF script = "raises" THEN LlmRaises
    ELSE IF script = "empty" THEN LlmReplies(<<>>)
    ELSE IF n \in {"analyze_swagger", "generate_stories", "generate_code"}
    THEN LlmReplies(JsonObjectText)
    ELSE LlmReplies(Block(PathA, <<"c">>))

\* ------------------------------------------------------------ the run

VARIABLES
    graph,      \* which workflow runs: "agentic" or "langgraph"
    state,      \* the record the stages share
    node,       \* the node the graph runs next; "END"; "RAISED"
    escaped,    \* the exception that left a node function, NoExc when none
    last,       \* the last stage invocation: stage, what the service did, trace
    recent,     \* the file-set most recently assigned to a file-set slot
    blocks,     \* the blocks the reply of a stage under test was built from
    disk,       \* the file system: what stands at each path
    packed,     \* the last call that writes an archive file: what it was
                \* given to pack, the output path it was given, what it returned
    visited,    \* the nodes the graph has run, in the order it ran them
    records,    \* the records of concurrent runs, each at its reference
    runs,       \* the concurrent runs of one workflow object: the reference
                \* of the run's record, the node it is at, whether it waits
                \* for the service, and how the service answers it
    replies     \* what the service did at each node the graph has run, in
                \* the order of the nodes: it raised, it replied, or it was
                \* not called

vars == <<graph, state, node, escaped, last, recent, blocks, disk, packed, visited,
          records, runs, replies>>

NoPack == [files |-> Absent, path |-> PyNone, ret |-> PyNone]

\* the file-set slots of the record
FileSetSlots ==
    {"generated_code", "unit_tests", "generated_container_code",
     "generated_monitor_configs", "generated_readme_code"}

Init ==
    /\ graph \in {"agentic", "langgraph"}
    /\ \E sw \in Swaggers :
          state = IF graph = "agentic" THEN AgenticInitialState(sw)
                  ELSE LanggraphInitialState(sw)
    /\ node = "analyze_swagger"
    /\ escaped = NoExc
    /\ last = [stage |-> "", llm |-> NoCall, tr |-> NoTrace]
    /\ recent = Absent
    /\ blocks = <<>>
    /\ disk = NoDisk
    /\ packed = NoPack
    /\ visited = <<>>
    /\ records = <<>>
    /\ runs = <<>>
    /\ replies = <<>>

\* the graph runs the node's function on the record and follows the edge; an
\* exception that leaves the function ends the run
Ran(stage, llm, r) ==
    /\ state' = r.st
    /\ escaped' = r.exc
    /\ node' = IF r.exc = NoExc THEN Edge(graph, node) ELSE "RAISED"
    /\ last' = [stage |-> stage, llm |-> IF r.tr.called THEN llm ELSE NoCall, tr |-> r.tr]
    /\ recent' = IF r.tr.wrote # "" THEN r.st[r.tr.wrote] ELSE recent
    /\ visited' = Append(visited, node)
    /\ replies' = Append(replies, IF r.tr.called THEN llm ELSE NoCall)
    /\ UNCHANGED <<graph, disk, packed, records, runs>>

AnalyzeSwaggerReq ==
    /\ graph = "agentic" /\ node = "analyze_swagger"
    /\ \E llm \in JsonLlm : Ran("AnalyzeReq", llm, AnalyzeReq(state, llm))
    /\ UNCHANGED blocks

AnalyzeSwagger ==
    /\ graph = "langgraph" /\ node = "analyze_swagger"
    /\ \E llm \in JsonLlm : Ran("Analyze", llm, Analyze(state, llm))
    /\ UNCHANGED blocks

Stories ==
    /\ node = "generate_stories"
    /\ \E llm \in JsonLlm : Ran("GenerateStories", llm, GenerateStories(state, llm))
    /\ UNCHANGED blocks

CodeWithFramework ==
    /\ graph = "agentic" /\ node = "generate_code"
    /\ \E llm \in JsonLlm : Ran("GenerateCode", llm, GenerateCodeWithFramework(state, llm))
    /\ UNCHANGED blocks

Code ==
    /\ graph = "langgraph" /\ node = "generate_code"
    /\ \E llm \in JsonLlm : Ran("GenerateCode", llm, GenerateCode(state, llm))
    /\ UNCHANGED blocks

TestsFiles ==
    /\ graph = "agentic" /\ node = "generate_tests"
    /\ \E llm \in FileLlm : Ran("GenerateTestsFiles", llm, GenerateCodeWithTestFramework(state, llm))
    /\ UNCHANGED blocks

TestsJson ==
    /\ graph = "langgraph" /\ node = "generate_tests"
    /\ \E llm \in TestSuiteLlm : Ran("GenerateTestsJson", llm, GenerateTestsJson(state, llm))
    /\ UNCHANGED blocks

Container ==
    /\ graph = "agentic" /\ node = "generated_container_code"
    /\ \E llm \in FileLlm : Ran("ContainerGenerateCode", llm, ContainerGenerateCode(state, llm))
    /\ UNCHANGED blocks

Monitor ==
    /\ graph = "agentic" /\ node = "generated_monitor_configs"
    /\ \E llm \in FileLlm : Ran("MonitorGenerateCode", llm, MonitorGenerateCode(state, llm))
    /\ UNCHANGED blocks

SetUp ==
    /\ graph = "agentic" /\ node = "generated_readme_code"
    /\ \E llm \in FileLlm : Ran("SetUpGenerateCode", llm, SetUpGenerateCode(state, llm))
    /\ UNCHANGED blocks

Next ==
    \/ AnalyzeSwaggerReq \/ AnalyzeSwagger \/ Stories \/ CodeWithFramework \/ Code
    \/ TestsFiles \/ TestsJson \/ Container \/ Monitor \/ SetUp

Spec == Init /\ [][Next]_vars

\* run_workflow awaits the graph: a node that can run does run, every call
\* of the service returning or raising in the end
SpecLive == Spec /\ WF_vars(Next)

\* ------------------------------------------- one stage on a built reply

\* a file-producing stage called on a fresh record, as a unit test calls it
ParseInit ==
    /\ graph = "agentic"
    /\ \E sw \in Swaggers : state = AgenticInitialState(sw)
    /\ node \in {"generate_tests", "generated_monitor_configs"}
    /\ escaped = NoExc
    /\ last = [stage |-> "", llm |-> NoCall, tr |-> NoTrace]
    /\ recent = Absent
    /\ blocks = <<>>
    /\ disk = NoDisk
    /\ packed = NoPack
    /\ visited = <<>>
    /\ records = <<>>
    /\ runs = <<>>
    /\ replies = <<>>

ParseTests ==
    /\ node = "generate_tests" /\ last.stage = ""
    /\ \E bl \in BlockLists, pre \in Prefixes :
          /\ blocks' = bl
          /\ Ran("GenerateTestsFiles", LlmReplies(pre \o JoinBlocks(bl)),
                 GenerateCodeWithTestFramework(state, LlmReplies(pre \o JoinBlocks(bl))))

ParseMonitor ==
    /\ node = "generated_monitor_configs" /\ last.stage = ""
    /\ \E bl \in BlockLists, pre \in Prefixes :
          /\ blocks' = bl
          /\ Ran("MonitorGenerateCode", LlmReplies(pre \o JoinBlocks(bl)),
                 MonitorGenerateCode(state, LlmReplies(pre \o JoinBlocks(bl))))

ParseNext == ParseTests \/ ParseMonitor

SpecParse == ParseInit /\ [][ParseNext]_vars

\* --------------------------------------------------- one stage on a reply

\* a stage called on a fresh record with one reply of the service
ReplyInit ==
    /\ graph \in {"agentic", "langgraph"}
    /\ \E sw \in Swaggers :
          state = IF graph = "agentic" THEN AgenticInitialState(sw)
                  ELSE LanggraphInitialState(sw)
    /\ node \in IF graph = "agentic"
                THEN {"analyze_swagger", "generate_tests", "generated_monitor_configs"}
                ELSE {"analyze_swagger", "generate_stories", "generate_code", "generate_tests"}
    /\ escaped = NoExc
    /\ last = [stage |-> "", llm |-> NoCall, tr |-> NoTrace]
    /\ recent = Absent
    /\ blocks = <<>>
    /\ disk = NoDisk
    /\ packed = NoPack
    /\ visited = <<>>
    /\ records = <<>>
    /\ runs = <<>>
    /\ replies = <<>>

ReplyAnalyzeReq ==
    /\ graph = "agentic" /\ node = "analyze_swagger" /\ last.stage = ""
    /\ \E t \in ReplyTexts : Ran("AnalyzeReq", LlmReplies(t), AnalyzeReq(state, LlmReplies(t)))
    /\ UNCHANGED blocks

ReplyAnalyze ==
    /\ graph = "langgraph" /\ node = "analyze_swagger" /\ last.stage = ""
    /\ \E t \in ReplyTexts : Ran("Analyze", LlmReplies(t), Analyze(state, LlmReplies(t)))
    /\ UNCHANGED blocks

ReplyStories ==
    /\ node = "generate_stories" /\ last.stage = ""
    /\ \E t \in ReplyTexts :
          Ran("GenerateStories", LlmReplies(t), GenerateStories(state, LlmReplies(t)))
    /\ UNCHANGED blocks

ReplyCode ==
    /\ node = "generate_code" /\ last.stage = ""
    /\ \E t \in ReplyTexts : Ran("GenerateCode", LlmReplies(t), GenerateCode(state, LlmReplies(t)))
    /\ UNCHANGED blocks

ReplyTestsJson ==
    /\ graph = "langgraph" /\ node = "generate_tests" /\ last.stage = ""
    /\ \E t \in ReplyTexts :
          Ran("GenerateTestsJson", LlmReplies(t), GenerateTestsJson(state, LlmReplies(t)))
    /\ UNCHANGED blocks

ReplyTestsFiles ==
    /\ graph = "agentic" /\ node = "generate_tests" /\ last.stage = ""
    /\ \E t \in ReplyTexts :
          Ran("GenerateTestsFiles", LlmReplies(t),
              GenerateCodeWithTestFramework(state, LlmReplies(t)))
    /\ UNCHANGED blocks

ReplyMonitor ==
    /\ node = "generated_monitor_configs" /\ last.stage = ""
    /\ \E t \in ReplyTexts :
          Ran("MonitorGenerateCode", LlmReplies(t), MonitorGenerateCode(state, LlmReplies(t)))
    /\ UNCHANGED blocks

ReplyNext ==
    \/ ReplyAnalyzeReq \/ ReplyAnalyze \/ ReplyStories \/ ReplyCode
    \/ ReplyTestsJson \/ ReplyTestsFiles \/ ReplyMonitor

SpecReply == ReplyInit /\ [][ReplyNext]_vars

\* ------------------------------------------------- the packaging calls

\* a stage that packs in memory, or one call that writes an archive file,
\* with or without the output directory in place, on a record with or
\* without an error of an earlier stage
ZipInit ==
    /\ graph = "agentic"
    /\ \E sw \in Swaggers :
          state \in {AgenticInitialState(sw),
                     [AgenticInitialState(sw) EXCEPT !.errors = <<EarlierError>>]}
    /\ node \in {"generate_tests", "generated_monitor_configs", "download"}
    /\ escaped = NoExc
    /\ last = [stage |-> "", llm |-> NoCall, tr |-> NoTrace]
    /\ recent = Absent
    /\ blocks = <<>>
    /\ disk \in {NoDisk, DictSet(NoDisk, OutputDir, Dir)}
    /\ packed = NoPack
    /\ visited = <<>>
    /\ records = <<>>
    /\ runs = <<>>
    /\ replies = <<>>

\* the call returned or raised as r
Packs(stage, llm, files, output_path, r) ==
    /\ disk' = r.fs
    /\ escaped' = r.exc
    /\ packed' = [files |-> files, path |-> output_path, ret |-> r.ret]
    /\ last' = [stage |-> stage, llm |-> llm, tr |-> NoTrace]
    /\ UNCHANGED <<graph, node, recent, blocks, visited, records, runs, replies>>

\* what generate_and_download_code hands to the packager, if anything
HandedOver(st) == IF st.errors = <<>> THEN st.generated_code ELSE Absent

CreateZip ==
    /\ node = "download" /\ last.stage = ""
    /\ \E code_files \in CodeFiles, output_path \in OutputPaths :
          Packs("create_zip_from_generated_code", NoCall, code_files, output_path,
                CreateZipFromGeneratedCode(code_files, output_path, disk))
    /\ UNCHANGED state

DownloadRan(llm, output_path, d) ==
    /\ state' = d.st
    /\ Packs("generate_and_download_code", llm, HandedOver(d.st), output_path, d)

GenerateAndDownload ==
    /\ node = "download" /\ last.stage = ""
    /\ \E llm \in JsonLlm, output_path \in OutputPaths :
          DownloadRan(llm, output_path, GenerateAndDownloadCode(state, llm, output_path, disk))

CreateZipRan(llm, d) ==
    Packs("generate_code_and_create_zip", llm, HandedOver(d.st),
          PyStr(OutputDir \o <<"/", "generated_fastapi_code.zip">>), d)

GenerateCodeThenZip ==
    /\ node = "download" /\ last.stage = ""
    /\ \E llm \in JsonLlm :
          CreateZipRan(llm, GenerateCodeAndCreateZip(state.swagger_content, state.user_stories,
                                                     llm, disk))
    /\ UNCHANGED state

ZipNext == ParseTests \/ ParseMonitor \/ CreateZip \/ GenerateAndDownload \/ GenerateCodeThenZip

SpecZip == ZipInit /\ [][ZipNext]_vars

\* ----------------------------------------- concurrent runs of one object

TwoInit ==
    /\ graph = "agentic"
    /\ \E sw \in Swaggers : state = AgenticInitialState(sw)
    /\ node = "analyze_swagger"
    /\ escaped = NoExc
    /\ last = [stage |-> "", llm |-> NoCall, tr |-> NoTrace]
    /\ recent = Absent
    /\ blocks = <<>>
    /\ disk = NoDisk
    /\ packed = NoPack
    /\ visited = <<>>
    /\ records = <<>>
    /\ runs = <<>>
    /\ replies = <<>>

\* run_workflow is called: it builds its record and enters the graph
Started(a, script) ==
    /\ records' = a.heap
    /\ runs' = Append(runs, [ref |-> a.ref, node |-> "analyze_swagger",
                             waiting |-> FALSE, script |-> script])

RunWorkflow ==
    /\ Len(runs) < MaxRuns
    /\ \E script \in Scripts, sw \in Swaggers :
          Started(Allocate(records, AgenticInitialState(sw)), script)
    /\ UNCHANGED <<graph, state, node, escaped, last, recent, blocks, disk, packed, visited,
                   replies>>

\* a run enters its node and goes as far as the await of the service
CallStage ==
    /\ \E i \in 1..Len(runs) :
          /\ runs[i].node # "END" /\ ~runs[i].waiting
          /\ records' = [records EXCEPT ![runs[i].ref] = BeforeAwait(runs[i].node, @)]
          /\ runs' = [runs EXCEPT ![i].waiting = TRUE]
    /\ UNCHANGED <<graph, state, node, escaped, last, recent, blocks, disk, packed, visited,
                   replies>>

\* the node function ended as r: the graph follows the edge
Resumed(i, r) ==
    /\ records' = [records EXCEPT ![runs[i].ref] = r.st]
    /\ runs' = [runs EXCEPT ![i].waiting = FALSE,
                            ![i].node = IF r.exc = NoExc THEN Edge("agentic", @) ELSE "RAISED"]

\* the service answers a waiting run, and the node function runs to its end
ResumeStage ==
    /\ \E i \in 1..Len(runs) :
          /\ runs[i].waiting
          /\ Resumed(i, StageOf(runs[i].node, records[runs[i].ref],
                                LlmOf(runs[i].script, runs[i].node)))
    /\ UNCHANGED <<graph, state, node, escaped, last, recent, blocks, disk, packed, visited,
                   replies>>

TwoNext == RunWorkflow \/ CallStage \/ ResumeStage

SpecTwo == TwoInit /\ [][TwoNext]_vars

\* ------------------------------------------------------------ properties

\* the stages that produce files, the slot each stage writes, what the
\* fallback pattern of a file-producing stage asks for behind the dot, and the
\* label each stage assigns to current_step
FileStages ==
    {"GenerateTestsFiles", "ContainerGenerateCode", "MonitorGenerateCode", "SetUpGenerateCode"}

StructuredStages == {"Analyze", "AnalyzeReq", "GenerateStories", "GenerateCode", "GenerateTestsJson"}

SlotOf(stage) ==
    CASE stage \in {"Analyze", "AnalyzeReq"} -> "metadata"
      [] stage = "GenerateStories" -> "user_stories"
      [] stage = "GenerateCode" -> "generated_code"
      [] stage \in {"GenerateTestsJson", "GenerateTestsFiles"} -> "unit_tests"
      [] stage = "ContainerGenerateCode" -> "generated_container_code"
      [] stage = "MonitorGenerateCode" -> "generated_monitor_configs"
      [] stage = "SetUpGenerateCode" -> "generated_readme_code"

ExtOf(stage) == IF stage = "GenerateTestsFiles" THEN <<"p", "y">> ELSE <<>>

StepAfter(stage) ==
    CASE stage \in {"Analyze", "AnalyzeReq"} -> "user_stories"
      [] stage = "GenerateStories" -> "code_generation"
      [] stage = "GenerateCode" -> "test_generation"
      [] stage = "GenerateTestsJson" -> "test_validation"
      [] stage = "GenerateTestsFiles" -> "generated_container_code"
      [] stage = "ContainerGenerateCode" -> "generated_monitor_configs"
      [] stage = "MonitorGenerateCode" -> "end"
      [] stage = "SetUpGenerateCode" -> "generated_readme_code"

\* the service was called and replied
Replied(l) == l.stage # "" /\ l.llm # NoCall /\ ~l.llm.raises

\* a reply in which neither pattern of a file-producing stage finds a file
HoldsNoFiles(stage, text) ==
    /\ TagFindall(Strip(text)) = <<>>
    /\ FallbackFindall(Strip(text), ExtOf(stage)) = <<>>

\* a reply the parser of a structured stage rejects
Unparsable(stage, text) ==
    IF stage = "AnalyzeReq" THEN ~JsonLoads(text).ok ELSE ~SafeJsonLoads(text).ok

IsPrefix(a, b) == Len(a) <= Len(b) /\ SubSeq(b, 1, Len(a)) = a

\* C1 (as the specification states it): whenever generated_zip is present,
\* its entries are the path/content pairs, in order, of the file-set most
\* recently written into the record by any stage.  The no-files path of a
\* file-producing stage stores an empty file-set and keeps the older archive.
ArchiveIsMostRecentFileSet ==
    state.generated_zip.kind = "zip" =>
        /\ recent.kind = "dict"
        /\ state.generated_zip = ZipOf(recent.val)

\* C2 (as the specification states it): after every stage invocation,
\* failed or not, current_step holds the label the stage's success path
\* assigns.
CurrentStepAlwaysAdvanced ==
    last.stage # "" => state.current_step = StepAfter(last.stage)

\* C2 (amended): a stage that returns through its success path or through the
\* no-files path of a file-producing stage leaves its follow-on label in
\* current_step; a stage that returns through an exception handler leaves
\* current_step as it found it.
CurrentStepPolicy ==
    [][ /\ last'.tr.path = "except" => state'.current_step = state.current_step
        /\ last'.tr.path # "except" => state'.current_step = StepAfter(last'.stage) ]_vars

\* C2: code generation failed behind a successful story stage, and
\* current_step still holds the label the story stage left
CurrentStepLeftBehind ==
    /\ last.stage = "GenerateCode"
    /\ last.tr.path = "except"
    /\ state.current_step = "code_generation"
    /\ Len(state.errors) = 1

\* C3 (as the specification states it): every file-set slot that is present
\* holds a mapping from path texts to content texts.  The code-generation
\* stage stores whatever JSON value the reply denotes.
FileSetSlotsAreMappings ==
    \A slot \in FileSetSlots :
        state[slot].kind # "absent" =>
            /\ state[slot].kind = "dict"
            /\ \A i \in 1..Len(state[slot].val) : state[slot].val[i][2].kind = "str"

\* C4: no stage invocation lets an exception out; when the service raises,
\* or replies with an empty text, a text the stage's parser rejects or a text
\* without files, the stage appends exactly one entry to errors and leaves its
\* output slot as it was or sets it to the empty mapping.
StagesNeverRaise ==
    [][ /\ escaped' = NoExc
        /\ node' # "RAISED"
        /\ ( \/ last'.llm.raises
             \/ /\ Replied(last')
                /\ \/ Strip(last'.llm.content) = <<>>
                   \/ last'.stage \in StructuredStages
                        /\ Unparsable(last'.stage, last'.llm.content)
                   \/ last'.stage \in FileStages
                        /\ HoldsNoFiles(last'.stage, last'.llm.content) )
           => /\ Len(state'.errors) = Len(state.errors) + 1
              /\ IsPrefix(state.errors, state'.errors)
              /\ \/ state'[SlotOf(last'.stage)] = state[SlotOf(last'.stage)]
                 \/ state'[SlotOf(last'.stage)] = PyDict(<<>>) ]_vars

\* C4: the service raised inside the monitoring stage behind a reply without
\* files in an earlier stage, and the run went on
RaisedCallRecorded ==
    /\ last.stage = "MonitorGenerateCode"
    /\ last.llm.raises
    /\ escaped = NoExc
    /\ node = "generated_readme_code"
    /\ Len(state.errors) >= 2

\* C5: every step leaves the errors it found as a prefix of the errors it
\* leaves.
ErrorsOnlyGrow == [][IsPrefix(state.errors, state'.errors)]_vars

\* C5: three stages in a row have each added an entry
ErrorsGrewThrice ==
    /\ Len(state.errors) = 3
    /\ last.stage = "GenerateCode"

\* the reply of the stage under test is its blocks joined, nothing else
BuiltFromBlocks == last.stage # "" /\ last.llm.content = JoinBlocks(blocks)

AllLines == \A i \in 1..Len(blocks) : blocks[i].layout = "lines"

DistinctPaths ==
    \A i, j \in 1..Len(blocks) : blocks[i].path = blocks[j].path => i = j

\* C6 (as the specification states it): a reply built by joining N blocks
\* gives exactly N entries, the blocks' paths with the blocks' contents.
ParserReturnsBlocksAsGiven ==
    BuiltFromBlocks =>
        state[SlotOf(last.stage)] =
            PyDict([i \in 1..Len(blocks) |-> <<blocks[i].path, PyStr(blocks[i].content)>>])

\* C6 (amended): a reply built by joining N blocks with pairwise different
\* paths, each with its end marker on a line of its own, gives exactly N
\* entries in the order of the blocks: the blocks' paths, each with its
\* block's content stripped of leading and trailing white space; N = 0 gives
\* the empty mapping.
ParserReturnsTrimmedBlocks ==
    (BuiltFromBlocks /\ AllLines /\ DistinctPaths) =>
        state[SlotOf(last.stage)] =
            PyDict([i \in 1..Len(blocks) |->
                       <<blocks[i].path, PyStr(Strip(blocks[i].content))>>])

\* C6: two blocks with different paths, one content with white space around
\* it, gave two entries
TwoTrimmedEntries ==
    /\ BuiltFromBlocks /\ AllLines /\ DistinctPaths
    /\ Len(blocks) = 2
    /\ blocks[1].content = <<"sp", "c", "nl">>
    /\ Len(state[SlotOf(last.stage)].val) = 2

\* the last block of the reply under test that declares the path of block i
LastWithPath(i) ==
    CHOOSE j \in 1..Len(blocks) :
        /\ blocks[j].path = blocks[i].path
        /\ \A k \in 1..Len(blocks) : blocks[k].path = blocks[i].path => k <= j

\* C7: when the blocks of a reply declare a path several times, the file-set
\* has exactly one entry for it, and its content is the (stripped) content of
\* the last block that declares it.
LastBlockWins ==
    (last.stage # "" /\ AllLines) =>
        \A i \in 1..Len(blocks) :
            LET files == state[SlotOf(last.stage)].val
                hits == {k \in 1..Len(files) : files[k][1] = blocks[i].path}
            IN  /\ Cardinality(hits) = 1
                /\ \A k \in hits :
                      files[k][2] = PyStr(Strip(blocks[LastWithPath(i)].content))

\* C7: two blocks declared one path with different contents, and the one
\* entry holds the second content
SecondBlockWon ==
    /\ last.stage # "" /\ AllLines
    /\ Len(blocks) = 2
    /\ blocks[1].path = blocks[2].path
    /\ blocks[1].content = <<"c">>
    /\ blocks[2].content = <<"c", "nl", "b">>
    /\ state[SlotOf(last.stage)] = PyDict(<< <<blocks[1].path, PyStr(<<"c", "nl", "b">>)>> >>)

\* C8: the fallback pattern is evaluated only behind zero tag-grammar
\* matches; a reply that holds a block with its end marker on a line of its
\* own has a tag-grammar match, so the fallback pattern is not evaluated and
\* the file-set is what the tag-grammar matches give.
FallbackOnlyOnZeroMatches ==
    /\ last.tr.fallback => last.tr.tagn = 0
    /\ (last.stage # "" /\ \E i \in 1..Len(blocks) : blocks[i].layout = "lines") =>
          /\ last.tr.tagn >= 1
          /\ ~last.tr.fallback
          /\ state[SlotOf(last.stage)] =
                PyDict(FilesFrom(TagFindall(Strip(last.llm.content)), <<>>))

\* C8: the reply held a path with a fenced block behind it, which the
\* fallback pattern matches, and a tag-grammar block; the fallback pattern
\* was not evaluated
FallbackPassedOver ==
    /\ last.stage = "MonitorGenerateCode"
    /\ FallbackFindall(Strip(last.llm.content), <<>>) # <<>>
    /\ Len(blocks) = 1 /\ blocks[1].layout = "lines"
    /\ ~last.tr.fallback
    /\ last.tr.tagn = 1

\* C9: a file-producing stage whose reply holds no file for either pattern
\* returns; it appends exactly one entry, which quotes the stripped reply cut
\* to its first 1000 symbols; it sets its slot to the empty mapping, leaves
\* generated_zip as it was and assigns its follow-on label to current_step.
NoFilesPolicy ==
    [][ ( /\ Replied(last')
          /\ last'.stage \in FileStages
          /\ HoldsNoFiles(last'.stage, last'.llm.content) )
        => /\ escaped' = NoExc
           /\ Len(state'.errors) = Len(state.errors) + 1
           /\ IsPrefix(state.errors, state'.errors)
           /\ state'.errors[Len(state'.errors)].quoted =
                 Take(Strip(last'.llm.content), FilePreviewLimit)
           /\ Len(state'.errors[Len(state'.errors)].quoted) <= FilePreviewLimit
           /\ state'[SlotOf(last'.stage)] = PyDict(<<>>)
           /\ state'.generated_zip = state.generated_zip
           /\ state'.current_step = StepAfter(last'.stage) ]_vars

\* C9: behind a stage that packed an archive, a stage was given a reply longer
\* than the preview and without files
LongReplyWithoutFiles ==
    /\ last.stage = "MonitorGenerateCode"
    /\ Replied(last)
    /\ Len(last.llm.content) > FilePreviewLimit
    /\ HoldsNoFiles(last.stage, last.llm.content)
    /\ state.generated_zip.kind = "zip"
    /\ state.generated_monitor_configs = PyDict(<<>>)
    /\ Len(state.errors[Len(state.errors)].quoted) = FilePreviewLimit

\* C10 (as the specification states it): when the structured test stage is
\* given a non-empty reply that is no JSON, errors gains an entry that quotes
\* the reply and unit_tests is set to a placeholder that holds the reply.  The
\* parser raises ValueError, which the handler that builds the placeholder
\* does not catch.
UnparsableReplyLeavesPlaceholder ==
    ( /\ Replied(last)
      /\ last.stage = "GenerateTestsJson"
      /\ Strip(last.llm.content) # <<>>
      /\ Unparsable(last.stage, last.llm.content) )
    => /\ state.errors # <<>>
       /\ state.errors[Len(state.errors)].quoted = Take(CleanJsonText(last.llm.content), JsonPreviewLimit)
       /\ state.unit_tests.kind = "dict"
       /\ <<"raw_response">> \in DictKeys(state.unit_tests.val)
       /\ DictGet(state.unit_tests.val, <<"raw_response">>) = PyStr(last.llm.content)

\* the stages that hand the reply to safe_json_loads
SafeJsonStages == {"Analyze", "GenerateStories", "GenerateCode", "GenerateTestsJson"}

\* the service replied with nothing but white space
Blank(l) == Replied(l) /\ Strip(l.llm.content) = <<>>

EmptyReplyError == [msg |-> "Empty response received from LLM", quoted |-> <<>>]

MissingClosersRepaired ==
    \A nest \in Nestings : \A k \in 1..Len(nest) :
        ( /\ Replied(last)
          /\ last.stage \in SafeJsonStages
          /\ last.llm.content = Truncated(nest, k) )
        => /\ SafeJsonLoads(last.llm.content).ok
           /\ SafeJsonLoads(last.llm.content).val = JsonLoads(Nested(nest)).val
           /\ state.errors = <<>>

\* the service replied with text that is not blank and that json.loads
\* rejects once the fences are removed
Malformed(l) ==
    /\ Replied(l)
    /\ Strip(l.llm.content) # <<>>
    /\ ~JsonLoads(CleanJsonText(l.llm.content)).ok

NormalizationIdempotent ==
    ( /\ Replied(last)
      /\ last.stage \in SafeJsonStages
      /\ Strip(last.llm.content) # <<>> )
    => /\ Strip(CleanJsonText(last.llm.content)) # <<>>
       /\ CleanJsonText(CleanJsonText(last.llm.content)) = CleanJsonText(last.llm.content)

\* the text ends in a run of three backticks
EndsInFence(t) == Len(t) >= 3 /\ IsFence(t, Len(t) - 2)

\* C15 (as the specification states it): the normalizer removes only the
\* white space around the text, an opening fence line (three backticks and
\* any language tag) at the very start and a closing fence line at the very
\* end.  So a trimmed text that neither starts nor ends with a fence comes
\* back as it is, backticks at the start or end of its inner lines included,
\* and a fenced JSON object comes back as the object whatever the tag.
NormalizerTouchesOnlyOuterFences ==
    (Replied(last) /\ last.stage \in SafeJsonStages) =>
        /\ ( /\ last.llm.content # <<>>
             /\ Strip(last.llm.content) = last.llm.content
             /\ ~IsFence(last.llm.content, 1)
             /\ ~EndsInFence(last.llm.content) )
           => CleanJsonText(last.llm.content) = last.llm.content
        /\ \A tag \in {<<>>, <<"json">>, <<"a">>} :
              last.llm.content = Fence \o tag \o <<"nl">> \o JsonObjectText \o <<"nl">> \o Fence
              => CleanJsonText(last.llm.content) = JsonObjectText

\* the calls that write an archive file
PackagingCalls ==
    {"create_zip_from_generated_code", "generate_and_download_code",
     "generate_code_and_create_zip"}

\* a mapping whose contents are all texts
TextMapping(v) == v.kind = "dict" /\ \A i \in 1..Len(v.val) : v.val[i][2].kind = "str"

\* a packaging call was handed a mapping of texts and returned a path
PackedTexts == last.stage \in PackagingCalls /\ TextMapping(packed.files) /\ packed.ret # PyNone

\* the archive holds one entry per item, in order, under the item's path and
\* with the item's content
RoundTrips(files, entries) ==
    /\ Len(entries) = Len(files)
    /\ \A i \in 1..Len(files) :
          entries[i][1] = files[i][1] /\ entries[i][2] = files[i][2].val

\* the name create_zip_from_generated_code stores an item under
StoredName(name, content) ==
    IF HasSuffix(name) THEN name ELSE name \o GuessFileExtension(content)

SameExceptAt(fs, after, written) ==
    /\ DictKeys(fs) \subseteq DictKeys(after)
    /\ DictKeys(after) \ DictKeys(fs) \subseteq written
    /\ \A p \in DictKeys(fs) \ written : DictGet(after, p) = DictGet(fs, p)

\* the path a packaging call writes its archive to
TargetOf(output_path) ==
    IF output_path = PyNone THEN <<"generated_code.zip">> ELSE output_path.val

AgenticOrder ==
    <<"analyze_swagger", "generate_stories", "generate_code", "generate_tests",
      "generated_container_code", "generated_monitor_configs", "generated_readme_code">>

LanggraphOrder == <<"analyze_swagger", "generate_stories", "generate_code", "generate_tests">>

OrderOf(g) == IF g = "agentic" THEN AgenticOrder ELSE LanggraphOrder

RECURSIVE SoloFrom(_, _, _)
SoloFrom(st, n, script) ==
    IF n = "END" THEN st
    ELSE SoloFrom(StageOf(n, BeforeAwait(n, st), LlmOf(script, n)).st, Edge("agentic", n), script)

\* a run other than the one that stepped
Idle(i) == i <= Len(runs) /\ runs'[i] = runs[i]

\* C19: concurrent calls of run_workflow on one workflow object each work on
\* a record of their own: under every interleaving a step of one run leaves
\* the record of every other run as it is, and a run ends with the record it
\* ends with when it runs alone.
RunsAreIsolated ==
    /\ [](\A i, j \in 1..Len(runs) : runs[i].ref = runs[j].ref => i = j)
    /\ [][\A i \in 1..Len(runs') : Idle(i) => records'[runs[i].ref] = records[runs[i].ref]]_vars
    /\ [](\A i \in 1..Len(runs) : \A sw \in Swaggers :
             runs[i].node = "END" =>
                 records[runs[i].ref]
                     = SoloFrom(AgenticInitialState(sw), "analyze_swagger", runs[i].script))

\* C19: the second run went through all its stages, recording errors, while
\* the first run was waiting for the service in its first stage, and the
\* first run's record holds no error
RunInsideAnotherRunsAwait ==
    /\ Len(runs) > 1
    /\ runs[1].node = "analyze_swagger" /\ runs[1].waiting
    /\ runs[2].node = "END"
    /\ records[runs[2].ref].errors # <<>>
    /\ records[runs[1].ref].errors = <<>>

\* the fields of the pipeline record: the specification, the structured
\* results, the file-sets, the archive, current_step and errors
PipelineFields ==
    {"swagger_content", "metadata", "user_stories", "readme", "generated_zip",
     "current_step", "errors"} \cup FileSetSlots

\* C20 (as the specification states it): when the call of the service
\* raises, or anything else raises inside a stage, the stage leaves
\* current_step and its output slot as they were on entry; of the pipeline
\* fields only errors changes, by one entry appended.  A file-producing
\* stage assigns its slot before it writes the archive, and writing an entry
\* with the empty name raises.
ExceptionLeavesRecord ==
    [][last'.tr.path = "except" =>
          /\ Len(state'.errors) = Len(state.errors) + 1
          /\ IsPrefix(state.errors, state'.errors)
          /\ state'.current_step = state.current_step
          /\ state'[SlotOf(last'.stage)] = state[SlotOf(last'.stage)]
          /\ \A f \in PipelineFields \ {"errors"} : state'[f] = state[f] ]_vars

\* a character a path token as written in a reply is made of
IsTokenChar(c) == IsPathChar(c) \/ c = "."

\* k stands in t as a whole path token: the token neither starts before k
\* nor goes on behind it
WholeToken(t, k) ==
    \E i \in 1..(Len(t) - Len(k) + 1) :
        /\ SubSeq(t, i, i + Len(k) - 1) = k
        /\ ~(i > 1 /\ IsTokenChar(t[i - 1]))
        /\ ~(i + Len(k) <= Len(t) /\ IsTokenChar(t[i + Len(k)]))

\* C21 (as the specification states it): when the fallback pattern supplied
\* the files of a stage, every key of the stored file-set is a path token of
\* the reply as it is written there, its extension included.  The pattern of
\* the monitoring and set-up stages ends its path group at the dot.
FallbackKeysAreFullPathTokens ==
    (/\ last.stage \in FileStages /\ Replied(last)
     /\ last.tr.fallback /\ last.tr.path = "ok") =>
        \A k \in DictKeys(state[SlotOf(last.stage)].val) :
            WholeToken(Strip(last.llm.content), k)

\* the closing token of an opening one
CloserOf(c) == IF c = "[" THEN "]" ELSE "}"

\* the text from its first "[" or "{" to the last closing token of that
\* kind; <<>> when it has no such pair
Bracketed(t) ==
    LET opens == {i \in 1..Len(t) : t[i] \in {"[", "{"}}
        a == Min(opens)
        closes == {j \in (a + 1)..Len(t) : t[j] = CloserOf(t[a])}
    IN  IF opens = {} THEN <<>>
        ELSE IF closes = {} THEN <<>>
        ELSE SubSeq(t, a, Max(closes))

\* a JSON value with other text around it: the text as a whole does not
\* parse, its bracketed part does
Surrounded(t) == ~JsonLoads(t).ok /\ Bracketed(t) # <<>> /\ JsonLoads(Bracketed(t)).ok

\* C22 (as the specification states it): when the reply, its fences removed,
\* does not parse because the JSON value has other text around it, the parser
\* takes the text from the first "[" or "{" to the last matching "]" or "}"
\* and returns the value parsed from it; the stage records no error.
SurroundedJsonExtracted ==
    ( /\ Replied(last)
      /\ last.stage \in SafeJsonStages
      /\ Surrounded(CleanJsonText(last.llm.content)) )
    => /\ SafeJsonLoads(last.llm.content).ok
       /\ SafeJsonLoads(last.llm.content).val
             = JsonLoads(Bracketed(CleanJsonText(last.llm.content))).val
       /\ state.errors = <<>>

\* the matches a file-producing stage built its file-set from
UsedMatches(l) ==
    IF l.tr.tagn > 0 THEN TagFindall(Strip(l.llm.content))
    ELSE FallbackFindall(Strip(l.llm.content), ExtOf(l.stage))

\* no white space at either end
NoEdgeSpace(t) == t = <<>> \/ (~IsSpace(t[1]) /\ ~IsSpace(t[Len(t)]))

\* the members of ps in the order in which each appears first
Firsts(ps) ==
    LET First(i) == \A j \in 1..(i - 1) : ps[j] # ps[i]
        idx == SelectSeq([i \in 1..Len(ps) |-> i], First)
    IN  [k \in 1..Len(idx) |-> ps[idx[k]]]

StoredTrimmedInOrder(fs, ms) ==
    /\ \A i \in 1..Len(fs) :
          /\ NoEdgeSpace(fs[i][1])
          /\ fs[i][2].kind = "str"
          /\ NoEdgeSpace(fs[i][2].val)
    /\ [i \in 1..Len(fs) |-> fs[i][1]] = Firsts([i \in 1..Len(ms) |-> Strip(ms[i][1])])

\* C23: every path and every content a file-producing stage stores, from the
\* matches of the tag grammar or of the fallback pattern, has no white space
\* at its start or end, and the entries stand in the order in which their
\* paths appear first among the matches of the reply.
TrimmedInOrder ==
    (last.stage \in FileStages /\ Replied(last) /\ last.tr.wrote # "") =>
        StoredTrimmedInOrder(state[SlotOf(last.stage)].val, UsedMatches(last))

\* C23: the monitoring stage was given the block of b.py and below it the
\* block of a.py, whose content has white space around it, and stored b.py
\* first and a.py with the bare content second
TwoEntriesInReplyOrder ==
    /\ last.stage = "MonitorGenerateCode" /\ Replied(last)
    /\ Len(blocks) = 2
    /\ blocks[1].path = PathB /\ blocks[2].path = PathA
    /\ blocks[2].content = <<"sp", "c", "nl">>
    /\ Len(UsedMatches(last)) = 2
    /\ UsedMatches(last)[2][2] # Strip(UsedMatches(last)[2][2])
    /\ state.generated_monitor_configs.kind = "dict"
    /\ Len(state.generated_monitor_configs.val) = 2
    /\ state.generated_monitor_configs.val[1][1] = PathB
    /\ state.generated_monitor_configs.val[2] = <<PathA, PyStr(<<"c">>)>>

EntriesOf(fs) == [i \in 1..Len(fs) |-> <<fs[i][1], fs[i][2].val>>]

\* C25 (as the specification states it): right behind a file-producing stage
\* whose reply held at least one file for the tag grammar or for the fallback
\* pattern, the archive in the record is the one that stage stored: it has at
\* least one entry, and exactly one entry per item of the file-set the stage
\* stored, with the same paths and contents in the mapping's order.  A stage
\* that cannot write an entry stores its file-set and no archive.
ArchiveHoldsStoredFileSet ==
    (last.stage \in FileStages /\ Replied(last) /\ UsedMatches(last) # <<>>) =>
        /\ last.tr.zipped
        /\ state.generated_zip.kind = "zip"
        /\ Len(state.generated_zip.val) >= 1
        /\ state[SlotOf(last.stage)].kind = "dict"
        /\ state.generated_zip.val = EntriesOf(state[SlotOf(last.stage)].val)

\* the keys of the record whose value a step changed
Changed(before, after) == {f \in DOMAIN after : after[f] # before[f]}

\* what every stage may write besides its own output
SharedKeys == {"generated_zip", "errors", "current_step"}

\* C26 (as the specification states it): a stage writes nothing but its own
\* output slot, the archive, errors and current_step; the specification it
\* was given and the slots of the other stages stay as they are.
StagesWriteOnlyTheirOutput ==
    [][ /\ state'.swagger_content = state.swagger_content
        /\ Changed(state, state') \subseteq {SlotOf(last'.stage)} \cup SharedKeys ]_vars

\* the keys a node writes on the side: the wrappers of the seven-stage
\* workflow note the framework in the record before the stage runs, and the
\* structured test stage notes its coverage target and how it ended
SideKeys(g, stage) ==
    IF g = "agentic" /\ stage = "GenerateCode" THEN {"framework"}
    ELSE IF g = "agentic" /\ stage = "GenerateTestsFiles" THEN {"test_framework"}
    ELSE IF stage = "GenerateTestsJson" THEN {"test_coverage_target", "test_generation_metadata"}
    ELSE {}

\* C26 (amended): no node changes swagger_content or the output slot of
\* another stage; what a node changes is among its own output slot, the
\* archive, errors, current_step and the keys it writes on the side: framework
\* (code node) and test_framework (test node) in the seven-stage workflow,
\* test_coverage_target and test_generation_metadata in the structured test
\* stage.
StagesWritePolicy ==
    [][ /\ state'.swagger_content = state.swagger_content
        /\ Changed(state, state') \subseteq
              {SlotOf(last'.stage)} \cup SharedKeys \cup SideKeys(graph, last'.stage)
        /\ \A f \in (FileSetSlots \cup {"metadata", "user_stories"}) \ {SlotOf(last'.stage)} :
              state'[f] = state[f] ]_vars

\* C26: the story stage stored its stories, and the analysis the stage before
\* it had stored is still in the record
StoriesStoredBesideAnalysis ==
    /\ last.stage = "GenerateStories" /\ last.tr.path = "ok"
    /\ state.metadata = PyDict(<< <<(<<"k">>), PyStr(<<"v">>)>> >>)
    /\ state.user_stories = PyNone
    /\ state.current_step = "code_generation"

\* the output slot of the stage at the node n
NodeSlot(n) ==
    CASE n = "analyze_swagger" -> "metadata"
      [] n = "generate_stories" -> "user_stories"
      [] n = "generate_code" -> "generated_code"
      [] n = "generate_tests" -> "unit_tests"
      [] OTHER -> n

StructuredNodes == {"analyze_swagger", "generate_stories", "generate_code"}

\* the service was not asked, or it returned a reply the stage at n calls
\* well-formed: valid JSON for a structured stage, at least one block of the
\* tag grammar for a file-producing stage
WellFormedAt(n, l) ==
    \/ l = NoCall
    \/ /\ ~l.raises
       /\ IF n \in StructuredNodes THEN JsonLoads(l.content).ok
          ELSE TagFindall(Strip(l.content)) # <<>>

\* the slot of the stage at n holds what the reply l denotes
PopulatedFrom(st, n, l) ==
    /\ l # NoCall
    /\ st[NodeSlot(n)] =
          IF n \in StructuredNodes THEN JsonLoads(l.content).val
          ELSE PyDict(FilesFrom(TagFindall(Strip(l.content)), <<>>))

\* C27 (as the specification states it): a run of the seven-stage workflow
\* in which every call of the service returns a well-formed reply ends with
\* errors empty and with every stage's slot holding what its reply denotes,
\* generated_readme_code of the set-up stage included.  The set-up stage
\* never gets as far as its call.
WellFormedRunEndsClean ==
    ( /\ graph = "agentic" /\ node = "END"
      /\ \A i \in 1..Len(replies) : WellFormedAt(visited[i], replies[i]) )
    => /\ state.errors = <<>>
       /\ \A i \in 1..Len(replies) : PopulatedFrom(state, visited[i], replies[i])
       /\ state.generated_readme_code.kind = "dict"

\* C28 (as the specification states it): once a stage has set current_step
\* to "end", no stage of the run executes and the record is not modified any
\* more, so a run that ever held "end" ends with it.  The monitoring stage
\* sets "end", and the graph goes on from it to the set-up stage.
EndIsFinal ==
    [][state.current_step = "end" =>
          /\ visited' = visited
          /\ state' = state
          /\ state'.current_step = "end"]_vars

\* the directory the archive is to stand in is there
DirThere(fs, path) == DirName(path) = <<>> \/ DirName(path) \in DictKeys(fs)

\* C29 (as the specification states it): generate_and_download_code returns
\* no path and creates no archive exactly when errors is not empty behind
\* generate_code, whether the entries are old or new; otherwise it returns
\* the path of an archive built from generated_code.
DownloadReturnsPathUnlessErrors ==
    [][last'.stage = "generate_and_download_code" =>
          IF state'.errors # <<>>
          THEN escaped' = NoExc /\ packed'.ret = PyNone /\ disk' = disk
          ELSE /\ escaped' = NoExc
               /\ packed'.ret = PyStr(TargetOf(packed'.path))
               /\ TargetOf(packed'.path) \in DictKeys(disk')
               /\ DictGet(disk', TargetOf(packed'.path)).kind = "zip" ]_vars

\* C29 (amended): with errors not empty behind generate_code, old entries or
\* new, the call returns no path and leaves the file system as it is.  With
\* errors empty it hands generated_code to create_zip_from_generated_code:
\* when the directory of the output path is there and generated_code is a
\* mapping of texts, it returns the output path, and the archive there holds
\* one entry per item of generated_code with the item's content; otherwise
\* the exception of the packager leaves the call and no path is returned,
\* with nothing created when the directory is missing and an archive file
\* left at the output path when generated_code is no mapping of texts.
DownloadPolicy ==
    [][last'.stage = "generate_and_download_code" =>
          IF state'.errors # <<>>
          THEN escaped' = NoExc /\ packed'.ret = PyNone /\ disk' = disk
          ELSE IF DirThere(disk, TargetOf(packed'.path)) /\ TextMapping(state'.generated_code)
          THEN /\ escaped' = NoExc
               /\ packed'.ret = PyStr(TargetOf(packed'.path))
               /\ TargetOf(packed'.path) \in DictKeys(disk')
               /\ DictGet(disk', TargetOf(packed'.path)).kind = "zip"
               /\ Len(DictGet(disk', TargetOf(packed'.path)).val)
                     = Len(state'.generated_code.val)
               /\ \A i \in 1..Len(state'.generated_code.val) :
                     DictGet(disk', TargetOf(packed'.path)).val[i][2]
                        = state'.generated_code.val[i][2].val
          ELSE /\ escaped' # NoExc
               /\ packed'.ret = PyNone
               /\ IF DirThere(disk, TargetOf(packed'.path))
                  THEN TargetOf(packed'.path) \in DictKeys(disk')
                  ELSE disk' = disk ]_vars

\* C29: the record held an error of an earlier stage, code generation
\* succeeded on a reply that is a mapping of texts, and the call returned no
\* path and wrote no archive
OldErrorHeldBackArchive ==
    /\ last.stage = "generate_and_download_code"
    /\ last.llm = LlmReplies(JsonObjectText)
    /\ state.errors = <<EarlierError>>
    /\ state.current_step = "test_generation"
    /\ TextMapping(state.generated_code) /\ state.generated_code.val # <<>>
    /\ packed.ret = PyNone
    /\ escaped = NoExc
    /\ \A p \in DictKeys(disk) : DictGet(disk, p).kind # "zip"

\* two stage results on the record st are the same outcome: both stored one
\* value in metadata and moved current_step on to "user_stories" without an
\* error, or both appended one error and left metadata and current_step alone
SameOutcome(st, a, b) ==
    \/ /\ a.st.metadata = b.st.metadata
       /\ a.st.current_step = "user_stories" /\ b.st.current_step = "user_stories"
       /\ a.st.errors = st.errors /\ b.st.errors = st.errors
       /\ a.tr.path = "ok" /\ b.tr.path = "ok"
    \/ /\ Len(a.st.errors) = Len(st.errors) + 1 /\ Len(b.st.errors) = Len(st.errors) + 1
       /\ a.st.metadata = st.metadata /\ b.st.metadata = st.metadata
       /\ a.st.current_step = st.current_step /\ b.st.current_step = st.current_step

\* C30 (as the specification states it): the analyzer of the four-stage
\* workflow and the analyzer of the seven-stage workflow are equivalent on
\* every reply, fenced and empty replies included: on the same record and
\* the same reply they end in the same outcome.  The first removes the fences
\* before it parses, the second parses the reply as it came.
AnalyzersEquivalent ==
    [][(last'.stage \in {"Analyze", "AnalyzeReq"} /\ Replied(last')) =>
          SameOutcome(state, Analyze(state, last'.llm), AnalyzeReq(state, last'.llm))]_vars

====
